---- MODULE Spec2Model ----
(***************************************************************************)
(* Verification model of the JSON diff service of data-formatter            *)
(* (services/jsonDiff.ts and its collaborators).                            *)
(*                                                                          *)
(* Texts are sequences of one-character strings.  JavaScript values are     *)
(* records [t |-> type tag, v |-> payload]:                                 *)
(*   undefined, null          v = 0                                         *)
(*   boolean                  v \in BOOLEAN                                 *)
(*   number                   v \in Int                                     *)
(*   string                   v = sequence of characters                    *)
(*   array                    v = sequence of values                        *)
(*   object                   v = sequence of <<key, value>> in the order   *)
(*                            in which for-in enumerates the properties     *)
(***************************************************************************)
EXTENDS Integers, Sequences, FiniteSets, TLC

VARIABLES
  originalJSON,   \* the text given as the original document
  modifiedJSON,   \* the text given as the modified document
  options,        \* the Partial<DiffOptions> given by the caller
  pc,             \* "idle" before the call, "returned" or "thrown" after it
  comparison,     \* the DiffComparison returned, Undefined before and on a throw
  leftText,       \* the first string given to calculateCharLevelDiff
  rightText,      \* the second string given to calculateCharLevelDiff
  charResult,     \* the CharChange[] it returned
  lineResult,     \* the CharLevelDiffResult[] calculateMultiLineCharDiff returned
  currentDiffIndex,  \* DiffPanel: the index of the difference navigated to
  isCalculating,     \* DiffPanel: a diff is being computed
  pendingEffects,    \* DiffPanel: the effects the last commits left to run
  deferred,          \* DiffPanel: the callbacks run while effects were left to run
  awaiting,          \* DiffPanel: the settled promises whose await has not resumed
  keyHandler,        \* DiffPanel: the state the registered keydown listener closes over
  uncaught,          \* DiffPanel: the last callback ended in an uncaught TypeError
  patch,             \* the JSONPatch generateJSONPatch returned
  html,              \* the content of the Blob exportAsHTML resolved to
  textOut,           \* the string formatAsText returned
  tabs,              \* Tabs: the tabs prop
  activeTab,         \* Tabs: the activeTab prop
  selected,          \* Tabs: aria-selected of each button rendered
  clicked,           \* Tabs: the keys of the tabs clicked so far, in order
  calls              \* Tabs: the arguments onTabChange was called with, in order

diffVars == <<originalJSON, modifiedJSON, options, comparison>>
charVars == <<leftText, rightText, charResult, lineResult>>
panelVars ==
  <<currentDiffIndex, isCalculating, pendingEffects, deferred, awaiting, keyHandler,
    uncaught>>
exportVars == <<patch, html, textOut>>
tabVars == <<tabs, activeTab, selected, clicked, calls>>
vars == <<diffVars, pc, charVars, panelVars, exportVars, tabVars>>

(***************************************************************************)
(* JavaScript values                                                        *)
(***************************************************************************)
Undefined == [t |-> "undefined", v |-> 0]
Null == [t |-> "null", v |-> 0]
Bool(b) == [t |-> "boolean", v |-> b]
Num(n) == [t |-> "number", v |-> n]
Str(s) == [t |-> "string", v |-> s]
Arr(items) == [t |-> "array", v |-> items]
Obj(props) == [t |-> "object", v |-> props]

IsArray(x) == x.t = "array"
\* typeof x === 'object' && x !== null
IsObjectLike(x) == x.t \in {"array", "object"}

Digits == <<"0", "1", "2", "3", "4", "5", "6", "7", "8", "9">>
DigitSet == {Digits[i] : i \in 1..10}
DigitValue(c) == (CHOOSE i \in 1..10 : Digits[i] = c) - 1

RECURSIVE NatToStr(_)
NatToStr(n) ==
  IF n < 10 THEN <<Digits[n + 1]>>
  ELSE NatToStr(n \div 10) \o <<Digits[(n % 10) + 1]>>

\* String(n) of an integer
NumToStr(n) == IF n < 0 THEN <<"-">> \o NatToStr(-n) ELSE NatToStr(n)

RECURSIVE StrToNat(_)
StrToNat(s) ==
  IF Len(s) = 0 THEN 0
  ELSE 10 * StrToNat(SubSeq(s, 1, Len(s) - 1)) + DigitValue(s[Len(s)])

\* A property name that is a canonical array index ("0", "7", "12"): such
\* properties are enumerated first, in ascending numeric order.
IsIndexKey(k) ==
  /\ Len(k) > 0
  /\ \A i \in 1..Len(k) : k[i] \in DigitSet
  /\ (Len(k) = 1 \/ k[1] # "0")

HasProp(props, k) == \E i \in 1..Len(props) : props[i][1] = k
PropIndex(props, k) == CHOOSE i \in 1..Len(props) : props[i][1] = k
GetProp(props, k) == IF HasProp(props, k) THEN props[PropIndex(props, k)][2] ELSE Undefined

\* obj[k] = val on an ordinary object: an existing property keeps its place,
\* a new index key is placed among the index keys in numeric order, any other
\* new key is appended.
SetProp(props, k, val) ==
  IF HasProp(props, k)
  THEN [props EXCEPT ![PropIndex(props, k)] = <<k, val>>]
  ELSE IF IsIndexKey(k)
       THEN LET before == {i \in 1..Len(props) :
                             IsIndexKey(props[i][1]) /\ StrToNat(props[i][1]) < StrToNat(k)}
                n == Cardinality(before)
            IN SubSeq(props, 1, n) \o <<<<k, val>>>> \o SubSeq(props, n + 1, Len(props))
       ELSE Append(props, <<k, val>>)

\* The keys for-in enumerates: own properties of an object, indices of an array
Keys(x) ==
  IF x.t = "object" THEN [i \in 1..Len(x.v) |-> x.v[i][1]]
  ELSE IF x.t = "array" THEN [i \in 1..Len(x.v) |-> NatToStr(i - 1)]
  ELSE <<>>

\* x[k]
Get(x, k) ==
  IF x.t = "object" THEN GetProp(x.v, k)
  ELSE IF x.t = "array"
       THEN IF IsIndexKey(k) /\ StrToNat(k) < Len(x.v) THEN x.v[StrToNat(k) + 1] ELSE Undefined
       ELSE Undefined

(***************************************************************************)
(* JSON.stringify(value), without indentation                               *)
(***************************************************************************)
Quote(s) == <<"\"">> \o s \o <<"\"">>

RECURSIVE Stringify(_)
RECURSIVE StringifyItems(_, _)
RECURSIVE StringifyProps(_, _)
Stringify(x) ==
  CASE x.t = "undefined" -> <<"u", "n", "d", "e", "f", "i", "n", "e", "d">>
    [] x.t = "null" -> <<"n", "u", "l", "l">>
    [] x.t = "boolean" -> IF x.v THEN <<"t", "r", "u", "e">> ELSE <<"f", "a", "l", "s", "e">>
    [] x.t = "number" -> NumToStr(x.v)
    [] x.t = "string" -> Quote(x.v)
    [] x.t = "array" -> <<"[">> \o StringifyItems(x.v, 1) \o <<"]">>
    [] x.t = "object" -> <<"{">> \o StringifyProps(x.v, 1) \o <<"}">>
StringifyItems(items, i) ==
  IF i > Len(items) THEN <<>>
  ELSE (IF i > 1 THEN <<",">> ELSE <<>>) \o Stringify(items[i]) \o StringifyItems(items, i + 1)
StringifyProps(props, i) ==
  IF i > Len(props) THEN <<>>
  ELSE (IF i > 1 THEN <<",">> ELSE <<>>)
         \o Quote(props[i][1]) \o <<":">> \o Stringify(props[i][2])
         \o StringifyProps(props, i + 1)

(***************************************************************************)
(* JSON.parse(text): a recursive-descent parser over the characters.        *)
(* Escape sequences, fractions and exponents are outside the alphabet of    *)
(* the texts considered here.                                               *)
(***************************************************************************)
Whitespace == {" ", "\n"}
EndOfInput == "Unexpected end of JSON input"
UnexpectedToken == "Unexpected token"
TrailingInput == "Unexpected non-whitespace character after JSON"

ParseOk(val, pos) == [ok |-> TRUE, val |-> val, pos |-> pos, err |-> ""]
ParseFail(msg, pos) == [ok |-> FALSE, val |-> Undefined, pos |-> pos, err |-> msg]
Unexpected(s, i) == ParseFail(IF i > Len(s) THEN EndOfInput ELSE UnexpectedToken, i)
CharAt(s, i) == IF i <= Len(s) THEN s[i] ELSE "EOF"
StartsWith(s, i, word) == i + Len(word) - 1 <= Len(s) /\ SubSeq(s, i, i + Len(word) - 1) = word

RECURSIVE SkipWs(_, _)
SkipWs(s, i) == IF i <= Len(s) /\ s[i] \in Whitespace THEN SkipWs(s, i + 1) ELSE i

RECURSIVE ScanDigits(_, _)
ScanDigits(s, i) == IF i <= Len(s) /\ s[i] \in DigitSet THEN ScanDigits(s, i + 1) ELSE i

\* index of the closing quote of the string whose first character is at i,
\* 0 when the string is not closed on its line
RECURSIVE ScanString(_, _)
ScanString(s, i) ==
  IF i > Len(s) \/ s[i] = "\n" THEN 0
  ELSE IF s[i] = "\"" THEN i
  ELSE ScanString(s, i + 1)

ParseNumber(s, i) ==
  LET neg == CharAt(s, i) = "-"
      j == IF neg THEN i + 1 ELSE i
  IN IF CharAt(s, j) \notin DigitSet THEN Unexpected(s, j)
     ELSE LET k == IF s[j] = "0" THEN j + 1 ELSE ScanDigits(s, j)
              n == StrToNat(SubSeq(s, j, k - 1))
          IN ParseOk(Num(IF neg THEN 0 - n ELSE n), k)

ParseString(s, i) ==
  LET close == ScanString(s, i + 1)
  IN IF close = 0 THEN ParseFail(IF Len(s) >= i + 1 /\ \E j \in (i + 1)..Len(s) : s[j] = "\n"
                                 THEN UnexpectedToken ELSE EndOfInput, i)
     ELSE ParseOk(Str(SubSeq(s, i + 1, close - 1)), close + 1)

RECURSIVE ParseValue(_, _)
RECURSIVE ParseElements(_, _, _)
RECURSIVE ParseMembers(_, _, _)
\* the value starting at position i (whitespace already skipped)
ParseValue(s, i) ==
  LET c == CharAt(s, i)
  IN CASE c = "{" ->
            LET j == SkipWs(s, i + 1)
            IN IF CharAt(s, j) = "}" THEN ParseOk(Obj(<<>>), j + 1)
               ELSE ParseMembers(s, j, <<>>)
       [] c = "[" ->
            LET j == SkipWs(s, i + 1)
            IN IF CharAt(s, j) = "]" THEN ParseOk(Arr(<<>>), j + 1)
               ELSE ParseElements(s, j, <<>>)
       [] c = "\"" -> ParseString(s, i)
       [] c = "-" \/ c \in DigitSet -> ParseNumber(s, i)
       [] StartsWith(s, i, <<"n", "u", "l", "l">>) -> ParseOk(Null, i + 4)
       [] StartsWith(s, i, <<"t", "r", "u", "e">>) -> ParseOk(Bool(TRUE), i + 4)
       [] StartsWith(s, i, <<"f", "a", "l", "s", "e">>) -> ParseOk(Bool(FALSE), i + 5)
       [] OTHER -> Unexpected(s, i)
\* the elements of an array from position i on, items being those read so far
ParseElements(s, i, items) ==
  LET r == ParseValue(s, i)
  IN IF ~r.ok THEN r
     ELSE LET j == SkipWs(s, r.pos)
              c == CharAt(s, j)
          IN IF c = "]" THEN ParseOk(Arr(Append(items, r.val)), j + 1)
             ELSE IF c = "," THEN ParseElements(s, SkipWs(s, j + 1), Append(items, r.val))
             ELSE Unexpected(s, j)
\* the members of an object from position i on, props being those read so far
ParseMembers(s, i, props) ==
  IF CharAt(s, i) # "\"" THEN Unexpected(s, i)
  ELSE LET k == ParseString(s, i)
       IN IF ~k.ok THEN k
          ELSE LET j == SkipWs(s, k.pos)
               IN IF CharAt(s, j) # ":" THEN Unexpected(s, j)
                  ELSE LET r == ParseValue(s, SkipWs(s, j + 1))
                       IN IF ~r.ok THEN r
                          ELSE LET m == SkipWs(s, r.pos)
                                   c == CharAt(s, m)
                                   next == SetProp(props, k.val.v, r.val)
                               IN IF c = "}" THEN ParseOk(Obj(next), m + 1)
                                  ELSE IF c = "," THEN ParseMembers(s, SkipWs(s, m + 1), next)
                                  ELSE Unexpected(s, m)

\* JSON.parse: the parsed value, or the SyntaxError's message
JSONParse(s) ==
  LET r == ParseValue(s, SkipWs(s, 1))
  IN IF ~r.ok THEN r
     ELSE LET j == SkipWs(s, r.pos)
          IN IF j <= Len(s) THEN ParseFail(TrailingInput, j) ELSE r

(***************************************************************************)
(* diff(left, right) of jsondiffpatch, as called with the default           *)
(* DiffPatcher (no objectHash, arrays.detectMove on).  Strings stay below   *)
(* the text-diff threshold, so two different strings give [left, right].    *)
(***************************************************************************)
\* left === right for two values parsed from two different texts: primitives
\* compare by value, two objects or arrays are never the same reference
StrictEquals(a, b) == a.t = b.t /\ ~IsObjectLike(a) /\ a.v = b.v

\* typeof x === 'object' (null included)
TypeofObject(x) == x.t \in {"null", "array", "object"}

\* options.arrays.detectMove of the default instance
DetectMove == TRUE

\* arraysHaveMatchByRef: some item of array1 is === an item of array2 at
\* another index
ArraysHaveMatchByRef(array1, array2) ==
  \E index1 \in 1..Len(array1), index2 \in 1..Len(array2) :
    index1 # index2 /\ StrictEquals(array1[index1], array2[index2])

\* matchContext.matchByPosition of the array filter: no objectHash and no
\* matchByPosition option are given, so two non-empty arrays are matched by
\* position unless they have a match by reference
MatchByPosition(array1, array2) ==
  Len(array1) > 0 /\ Len(array2) > 0 /\ ~ArraysHaveMatchByRef(array1, array2)

\* matchItems of the array filter: without objectHash two objects match by
\* position only, and only when byPosition is set
MatchItems(array1, array2, index1, index2, byPosition) ==
  LET value1 == array1[index1 + 1]
      value2 == array2[index2 + 1]
  IN IF StrictEquals(value1, value2) THEN TRUE
     ELSE IF ~TypeofObject(value1) \/ ~TypeofObject(value2) THEN FALSE
     ELSE byPosition /\ index1 = index2

Max(a, b) == IF a >= b THEN a ELSE b

\* lengthMatrix of the LCS filter
LengthMatrix(array1, array2, byPosition) ==
  LET matrix[x \in 0..Len(array1), y \in 0..Len(array2)] ==
        IF x = 0 \/ y = 0 THEN 0
        ELSE IF MatchItems(array1, array2, x - 1, y - 1, byPosition)
             THEN matrix[x - 1, y - 1] + 1
             ELSE Max(matrix[x - 1, y], matrix[x, y - 1])
  IN matrix

\* backtrack of the LCS filter: the matched index pairs <<index1, index2>>,
\* in ascending order
RECURSIVE Backtrack(_, _, _, _, _, _)
Backtrack(matrix, array1, array2, index1, index2, byPosition) ==
  IF index1 = 0 \/ index2 = 0 THEN <<>>
  ELSE IF MatchItems(array1, array2, index1 - 1, index2 - 1, byPosition)
       THEN Append(Backtrack(matrix, array1, array2, index1 - 1, index2 - 1, byPosition),
                   <<index1 - 1, index2 - 1>>)
       ELSE IF matrix[index1, index2 - 1] > matrix[index1 - 1, index2]
            THEN Backtrack(matrix, array1, array2, index1, index2 - 1, byPosition)
            ELSE Backtrack(matrix, array1, array2, index1 - 1, index2, byPosition)

RECURSIVE CommonHead(_, _, _, _)
CommonHead(array1, array2, n, byPosition) ==
  IF n < Len(array1) /\ n < Len(array2) /\ MatchItems(array1, array2, n, n, byPosition)
  THEN CommonHead(array1, array2, n + 1, byPosition) ELSE n

RECURSIVE CommonTail(_, _, _, _, _)
CommonTail(array1, array2, head, n, byPosition) ==
  IF /\ n + head < Len(array1)
     /\ n + head < Len(array2)
     /\ MatchItems(array1, array2, Len(array1) - 1 - n, Len(array2) - 1 - n, byPosition)
  THEN CommonTail(array1, array2, head, n + 1, byPosition) ELSE n

Added(value) == Arr(<<value>>)
Modified(old, new) == Arr(<<old, new>>)
Deleted(value) == Arr(<<value, Num(0), Num(0)>>)
\* ARRAY_MOVE = 3; the moved value itself is left out (includeValueOnMove off)
Moved(newIndex) == Arr(<<Str(<<>>), Num(newIndex), Num(3)>>)

ArrayMarker == <<<<"_", "t">>, Str(<<"a">>)>>
RemovedKey(index) == <<"_">> \o NatToStr(index)

\* result[`_${index}`] = [array1[index], 0, 0] for index = from .. to-1
RECURSIVE RemoveBlock(_, _, _, _)
RemoveBlock(props, array1, from, to) ==
  IF from >= to THEN props
  ELSE RemoveBlock(SetProp(props, RemovedKey(from), Deleted(array1[from + 1])),
                   array1, from + 1, to)

\* result[index] = [array2[index]] for index = from .. to-1
RECURSIVE AddBlock(_, _, _, _)
AddBlock(props, array2, from, to) ==
  IF from >= to THEN props
  ELSE AddBlock(SetProp(props, NatToStr(from), Added(array2[from + 1])), array2, from + 1, to)

RECURSIVE Diff(_, _)
RECURSIVE CollectChildren(_, _, _, _, _)
RECURSIVE ObjectChildren(_, _, _, _)
RECURSIVE AddedLoop(_, _, _, _, _, _, _, _)

\* collectChildrenDiffFilter: result[child.childName] = child.result for every
\* child <<left, right, name>> whose diff is not undefined; started tells
\* whether a result object exists already
CollectChildren(children, i, props, started, leftIsArray) ==
  IF i > Len(children)
  THEN IF ~started THEN Undefined
       ELSE IF leftIsArray THEN Obj(SetProp(props, ArrayMarker[1], ArrayMarker[2]))
       ELSE Obj(props)
  ELSE LET d == Diff(children[i][1], children[i][2])
       IN IF d = Undefined
          THEN CollectChildren(children, i + 1, props, started, leftIsArray)
          ELSE CollectChildren(children, i + 1, SetProp(props, children[i][3], d),
                               TRUE, leftIsArray)

\* objectsDiffFilter: one child per property of left, then one per property of
\* right that left lacks
ObjectChildren(left, right, i, side) ==
  IF side = "left"
  THEN IF i > Len(left.v) THEN ObjectChildren(left, right, 1, "right")
       ELSE <<<<left.v[i][2], GetProp(right.v, left.v[i][1]), left.v[i][1]>>>>
              \o ObjectChildren(left, right, i + 1, "left")
  ELSE IF i > Len(right.v) THEN <<>>
       ELSE (IF ~HasProp(left.v, right.v[i][1])
             THEN <<<<Undefined, right.v[i][2], right.v[i][1]>>>> ELSE <<>>)
              \o ObjectChildren(left, right, i + 1, "right")

IndexOfPair(seq, side, index) ==
  IF \E k \in 1..Len(seq) : seq[k][side] = index
  THEN CHOOSE k \in 1..Len(seq) : seq[k][side] = index
  ELSE 0

\* the second loop of the array filter, over index = commonHead .. to-1 of
\* array2; st = [props, removed, children]
AddedLoop(array1, array2, head, seq, index, to, st, byPosition) ==
  IF index >= to THEN st
  ELSE LET k == IndexOfPair(seq, 2, index - head)
       IN IF k = 0
          THEN LET cands == {r \in 1..Len(st.removed) :
                               MatchItems(array1, array2, st.removed[r], index, byPosition)}
               IN IF DetectMove /\ cands # {}
                  THEN LET r == CHOOSE c \in cands : \A d \in cands : c <= d
                           index1 == st.removed[r]
                       IN AddedLoop(array1, array2, head, seq, index + 1, to,
                            [props |-> SetProp(st.props, RemovedKey(index1), Moved(index)),
                             removed |-> SubSeq(st.removed, 1, r - 1)
                                           \o SubSeq(st.removed, r + 1, Len(st.removed)),
                             children |-> Append(st.children,
                                            <<array1[index1 + 1], array2[index + 1],
                                              NatToStr(index)>>)],
                            byPosition)
                  ELSE AddedLoop(array1, array2, head, seq, index + 1, to,
                         [st EXCEPT !.props = SetProp(@, NatToStr(index),
                                                      Added(array2[index + 1]))],
                         byPosition)
          ELSE AddedLoop(array1, array2, head, seq, index + 1, to,
                 [st EXCEPT !.children = Append(@,
                    <<array1[seq[k][1] + head + 1], array2[seq[k][2] + head + 1],
                      NatToStr(seq[k][2] + head)>>)],
                 byPosition)

\* result[`_${index}`] = [array1[index], 0, 0] for the indices of removed, from
\* the i-th on
RECURSIVE Removals(_, _, _, _)
Removals(props, array1, removed, i) ==
  IF i > Len(removed) THEN props
  ELSE Removals(SetProp(props, RemovedKey(removed[i]), Deleted(array1[removed[i] + 1])),
                array1, removed, i + 1)

\* the array filter once the LCS seq of the trimmed arrays is known
LcsDiff(array1, array2, head, tail, seq, removed, edge, byPosition) ==
  LET st == AddedLoop(array1, array2, head, seq, head, Len(array2) - tail,
                      [props |-> Removals(<<ArrayMarker>>, array1, removed, 1),
                       removed |-> removed, children |-> edge],
                      byPosition)
  IN CollectChildren(st.children, 1, st.props, TRUE, TRUE)

\* the indices of array1 between head and tail that the LCS leaves out
RemovedItems(len1, head, tail, seq) ==
  SelectSeq([i \in 1..(len1 - tail - head) |-> head + i - 1],
            LAMBDA x : IndexOfPair(seq, 1, x - head) = 0)

\* lcs.get on the arrays without their common head and tail
TrimmedLcs(trimmed1, trimmed2, byPosition) ==
  Backtrack(LengthMatrix(trimmed1, trimmed2, byPosition), trimmed1, trimmed2,
            Len(trimmed1), Len(trimmed2), byPosition)

\* the array filter once the common head and tail are known: arrays
\* identical, block added, block removed, or LCS
TrimmedDiff(array1, array2, head, tail, edge, seq, byPosition) ==
  IF head + tail = Len(array1)
  THEN IF Len(array1) = Len(array2)
       THEN CollectChildren(edge, 1, <<>>, FALSE, TRUE)
       ELSE CollectChildren(edge, 1,
                            AddBlock(<<ArrayMarker>>, array2, head, Len(array2) - tail),
                            TRUE, TRUE)
  ELSE IF head + tail = Len(array2)
  THEN CollectChildren(edge, 1,
                       RemoveBlock(<<ArrayMarker>>, array1, head, Len(array1) - tail),
                       TRUE, TRUE)
  ELSE LcsDiff(array1, array2, head, tail, seq,
               RemovedItems(Len(array1), head, tail, seq), edge, byPosition)

\* the children pushed while the common head and tail are told apart
EdgeChildren(array1, array2, head, tail) ==
  [i \in 1..head |-> <<array1[i], array2[i], NatToStr(i - 1)>>]
    \o [i \in 1..tail |-> <<array1[Len(array1) - i + 1], array2[Len(array2) - i + 1],
                             NatToStr(Len(array2) - i)>>]

HeadTailDiff(array1, array2, head, tail, byPosition) ==
  TrimmedDiff(array1, array2, head, tail, EdgeChildren(array1, array2, head, tail),
              TrimmedLcs(SubSeq(array1, head + 1, Len(array1) - tail),
                         SubSeq(array2, head + 1, Len(array2) - tail), byPosition),
              byPosition)

HeadDiff(array1, array2, head, byPosition) ==
  HeadTailDiff(array1, array2, head, CommonTail(array1, array2, head, 0, byPosition),
               byPosition)

PositionDiff(array1, array2, byPosition) ==
  HeadDiff(array1, array2, CommonHead(array1, array2, 0, byPosition), byPosition)

\* the array filter
ArrayDiff(array1, array2) == PositionDiff(array1, array2, MatchByPosition(array1, array2))

\* the diff pipe: trivial filter, texts filter, objects filter, array filter
Diff(left, right) ==
  IF StrictEquals(left, right) THEN Undefined
  ELSE IF left = Undefined THEN Added(right)
  ELSE IF right = Undefined THEN Deleted(left)
  ELSE IF left.t # right.t THEN Modified(left, right)
  ELSE IF left.t \in {"boolean", "number", "string"} THEN Modified(left, right)
  ELSE IF left.t = "array" THEN ArrayDiff(left.v, right.v)
  ELSE CollectChildren(ObjectChildren(left, right, 1, "left"), 1, <<>>, FALSE, FALSE)

(***************************************************************************)
(* services/jsonDiff.ts                                                     *)
(***************************************************************************)
\* validateJSON accepting the empty text as null
validateJSONLenient(jsonString) ==
  LET r == JSONParse(jsonString)
  IN IF r.ok THEN [isValid |-> TRUE, parsed |-> r.val, error |-> ""]
     ELSE IF jsonString = <<>> THEN [isValid |-> TRUE, parsed |-> Null, error |-> ""]
     ELSE [isValid |-> FALSE, parsed |-> Undefined, error |-> r.err]

\* validateJSON: JSON.parse in a try/catch
validateJSON(jsonString) ==
  LET r == JSONParse(jsonString)
  IN IF r.ok THEN [isValid |-> TRUE, parsed |-> r.val, error |-> ""]
     ELSE [isValid |-> FALSE, parsed |-> Undefined, error |-> r.err]

\* a path told by its last key alone
JoinLast(parts, sep) == IF Len(parts) = 0 THEN <<>> ELSE parts[Len(parts)]

\* Array.prototype.join
RECURSIVE Join(_, _)
Join(parts, sep) ==
  IF Len(parts) = 0 THEN <<>>
  ELSE IF Len(parts) = 1 THEN parts[1]
  ELSE parts[1] \o sep \o Join(Tail(parts), sep)

\* an id numbered like currentLine, from 1
DiffIdFromOne(n) == <<"d", "i", "f", "f", "-">> \o NatToStr(n + 1)

\* the template `diff-${changes.length}`
DiffId(n) == <<"d", "i", "f", "f", "-">> \o NatToStr(n)
\* the characters outside ASCII are written by their code points
AddedSuffix == <<" ", "(", "U+65B0", "U+589E", ")">>
DeletedSuffix == <<" ", "(", "U+522A", "U+9664", ")">>
Arrow == <<" ", "U+2192", " ">>

\* the DiffChange pushed for one delta entry; an absent field is Undefined, an
\* absent line number is 0
AdditionChange(n, keyPath, value, line) ==
  [id |-> DiffId(n), type |-> "addition", keyPath |-> keyPath,
   originalValue |-> Undefined, modifiedValue |-> value[1],
   lineNumber |-> [original |-> 0, modified |-> line],
   displayText |-> keyPath \o <<":", " ">> \o Stringify(value[1]) \o AddedSuffix]
ModificationChange(n, keyPath, value, line) ==
  [id |-> DiffId(n), type |-> "modification", keyPath |-> keyPath,
   originalValue |-> value[1], modifiedValue |-> value[2],
   lineNumber |-> [original |-> line, modified |-> line],
   displayText |-> keyPath \o <<":", " ">> \o Stringify(value[1]) \o Arrow
                     \o Stringify(value[2])]
DeletionChange(n, keyPath, value, line) ==
  [id |-> DiffId(n), type |-> "deletion", keyPath |-> keyPath,
   originalValue |-> value[1], modifiedValue |-> Undefined,
   lineNumber |-> [original |-> line, modified |-> 0],
   displayText |-> keyPath \o <<":", " ">> \o Stringify(value[1]) \o DeletedSuffix]

\* traverse, from the i-th key of deltaNode on: st = [changes, currentLine].
\* origNode and modNode are only handed down by the code and never read.
RECURSIVE traverse(_, _, _, _)
traverse(deltaNode, i, path, st) ==
  LET keys == Keys(deltaNode)
  IN IF i > Len(keys) THEN st
     ELSE LET key == keys[i]
              currentPath == Append(path, key)
              keyPath == Join(currentPath, <<".">>)
              value == Get(deltaNode, key)
              n == Len(st.changes)
              emit(change) == [changes |-> Append(st.changes, change),
                               currentLine |-> st.currentLine + 1]
              after ==
                IF key = <<"_", "t">> THEN st
                ELSE IF IsArray(value)
                THEN IF Len(value.v) = 1
                     THEN emit(AdditionChange(n, keyPath, value.v, st.currentLine))
                     ELSE IF Len(value.v) = 2
                     THEN emit(ModificationChange(n, keyPath, value.v, st.currentLine))
                     ELSE IF Len(value.v) = 3 /\ value.v[3] = Num(0)
                     THEN emit(DeletionChange(n, keyPath, value.v, st.currentLine))
                     ELSE st
                ELSE IF IsObjectLike(value) THEN traverse(value, 1, currentPath, st)
                ELSE st
          IN traverse(deltaNode, i + 1, path, after)

\* the deepest nesting of traverse calls on deltaNode (the outer call is 1)
RECURSIVE TraverseDepth(_)
TraverseDepth(deltaNode) ==
  LET keys == Keys(deltaNode)
      nested == {i \in 1..Len(keys) :
                   /\ keys[i] # <<"_", "t">>
                   /\ ~IsArray(Get(deltaNode, keys[i]))
                   /\ IsObjectLike(Get(deltaNode, keys[i]))}
      depths == {TraverseDepth(Get(deltaNode, keys[i])) : i \in nested}
  IN 1 + (IF depths = {} THEN 0 ELSE CHOOSE d \in depths : \A e \in depths : e <= d)

\* parseDeltaToDiffChanges (a delta of undefined has become {} at the call)
parseDeltaToDiffChanges(delta) ==
  IF delta = Undefined THEN <<>>
  ELSE traverse(delta, 1, <<>>, [changes |-> <<>>, currentLine |-> 1]).changes

CountType(differences, type) ==
  Cardinality({i \in 1..Len(differences) : differences[i].type = type})

\* calculateSummary counting deletions under a misspelt type
calculateSummaryMisspelt(differences) ==
  [totalChanges |-> Len(differences),
   additionCount |-> CountType(differences, "addition"),
   deletionCount |-> CountType(differences, "deleted"),
   modificationCount |-> CountType(differences, "modification")]

calculateSummary(differences) ==
  [totalChanges |-> Len(differences),
   additionCount |-> CountType(differences, "addition"),
   deletionCount |-> CountType(differences, "deletion"),
   modificationCount |-> CountType(differences, "modification")]

EMPTY_DIFF_SUMMARY ==
  [totalChanges |-> 0, additionCount |-> 0, deletionCount |-> 0, modificationCount |-> 0,
   unchangedKeys |-> 0]

DEFAULT_DIFF_OPTIONS ==
  [ignoreWhitespace |-> FALSE, ignoreArrayOrder |-> FALSE, ignoreCase |-> FALSE,
   maxDifferences |-> 500, formatBeforeDiff |-> TRUE]

\* { ...DEFAULT_DIFF_OPTIONS, ...options }: options is the set of
\* <<name, value>> given
MergeOptions(opts) ==
  [k \in DOMAIN DEFAULT_DIFF_OPTIONS |->
     IF \E o \in opts : o[1] = k THEN (CHOOSE o \in opts : o[1] = k)[2]
     ELSE DEFAULT_DIFF_OPTIONS[k]]

\* the error return keeping what the valid side parsed to
ErrorComparisonPartial(orig, mod, opts, code, message) ==
  [originalJSON |-> orig, modifiedJSON |-> mod,
   originalParsed |-> JSONParse(orig).val, modifiedParsed |-> JSONParse(mod).val,
   delta |-> Undefined,
   differences |-> <<>>, summary |-> EMPTY_DIFF_SUMMARY,
   options |-> MergeOptions(opts), status |-> "error",
   error |-> [code |-> code, message |-> IF message = "" THEN "Invalid JSON" ELSE message]]

\* the early return of calculateDiffSync on a text that does not parse
ErrorComparison(orig, mod, opts, code, message) ==
  [originalJSON |-> orig, modifiedJSON |-> mod,
   originalParsed |-> Undefined, modifiedParsed |-> Undefined, delta |-> Undefined,
   differences |-> <<>>, summary |-> EMPTY_DIFF_SUMMARY,
   options |-> MergeOptions(opts), status |-> "error",
   error |-> [code |-> code, message |-> IF message = "" THEN "Invalid JSON" ELSE message]]

\* the number of nested traverse frames the call stack has room for
MaxStack == 3

\* lines 208-227 of calculateDiffSync: the summary and the completed return
CompletedComparison(orig, mod, opts, originalParsed, modifiedParsed, delta, differences) ==
  [originalJSON |-> orig, modifiedJSON |-> mod,
   originalParsed |-> originalParsed, modifiedParsed |-> modifiedParsed,
   delta |-> delta, differences |-> differences,
   summary |-> calculateSummary(differences),
   options |-> MergeOptions(opts), status |-> "completed", error |-> Null]

\* line 206 of calculateDiffSync: parseDeltaToDiffChanges(delta || {}, ...),
\* whose recursion may exhaust the stack, which nothing in the function catches
FlattenDelta(orig, mod, opts, originalParsed, modifiedParsed, delta, deltaOrEmpty) ==
  IF TraverseDepth(deltaOrEmpty) > MaxStack
  THEN [thrown |-> TRUE, value |-> Undefined]
  ELSE [thrown |-> FALSE,
        value |-> CompletedComparison(orig, mod, opts, originalParsed, modifiedParsed, delta,
                                      parseDeltaToDiffChanges(deltaOrEmpty))]

\* lines 199-206 of calculateDiffSync, from the delta on
DiffParsed(orig, mod, opts, originalParsed, modifiedParsed, delta) ==
  FlattenDelta(orig, mod, opts, originalParsed, modifiedParsed, delta,
               IF delta = Undefined THEN Obj(<<>>) ELSE delta)

\* lines 156-206 of calculateDiffSync, from the two validations on
DiffValidated(orig, mod, opts, originalValidation, modifiedValidation) ==
  IF ~originalValidation.isValid
  THEN [thrown |-> FALSE,
        value |-> ErrorComparison(orig, mod, opts, "PARSE_ERROR_ORIGINAL",
                                  originalValidation.error)]
  ELSE IF ~modifiedValidation.isValid
  THEN [thrown |-> FALSE,
        value |-> ErrorComparison(orig, mod, opts, "PARSE_ERROR_MODIFIED",
                                  modifiedValidation.error)]
  ELSE DiffParsed(orig, mod, opts, originalValidation.parsed, modifiedValidation.parsed,
                  Diff(originalValidation.parsed, modifiedValidation.parsed))

\* calculateDiffSync: [thrown |-> FALSE, value |-> the DiffComparison], or
\* [thrown |-> TRUE, ...] when an exception leaves the function.  id,
\* createdAt, timestamp and calculationTime are clock readings and are left
\* out.
calculateDiffSync(orig, mod, opts) ==
  DiffValidated(orig, mod, opts, validateJSON(orig), validateJSON(mod))

(***************************************************************************)
(* diffChars(oldStr, newStr) of the diff package: the greedy search for the *)
(* shortest edit path over the diagonals oldPos - newPos.  Positions are    *)
(* the 0-based positions of the code; a path is                             *)
(* [oldPos, components], a component [count, added, removed, value].        *)
(***************************************************************************)
NoPath == [oldPos |-> -2, components |-> <<>>]

Component(count, added, removed) ==
  [count |-> count, added |-> added, removed |-> removed, value |-> <<>>]

\* the number of tokens equal on both sides after oldPos and newPos
RECURSIVE CommonCount(_, _, _, _)
CommonCount(oldString, newString, oldPos, newPos) ==
  IF /\ newPos + 1 < Len(newString)
     /\ oldPos + 1 < Len(oldString)
     /\ oldString[oldPos + 2] = newString[newPos + 2]
  THEN 1 + CommonCount(oldString, newString, oldPos + 1, newPos + 1)
  ELSE 0

\* extractCommon: follows the diagonal while the tokens are equal
ExtractCommonBy(basePath, commonCount) ==
  [oldPos |-> basePath.oldPos + commonCount,
   components |->
     IF commonCount > 0
     THEN Append(basePath.components, Component(commonCount, FALSE, FALSE))
     ELSE basePath.components]

extractCommon(basePath, newString, oldString, diagonalPath) ==
  ExtractCommonBy(basePath,
    CommonCount(oldString, newString, basePath.oldPos, basePath.oldPos - diagonalPath))

\* addToPath: one more added or removed token at the end of the path
addToPath(path, added, removed, oldPosInc) ==
  [oldPos |-> path.oldPos + oldPosInc,
   components |->
     IF /\ path.components # <<>>
        /\ path.components[Len(path.components)].added = added
        /\ path.components[Len(path.components)].removed = removed
     THEN [path.components EXCEPT ![Len(path.components)].count = @ + 1]
     ELSE Append(path.components, Component(1, added, removed))]

PathAt(bestPath, diagonalPath) ==
  IF diagonalPath \in DOMAIN bestPath THEN bestPath[diagonalPath] ELSE NoPath

CanAdd(addPath, diagonalPath, newLen) ==
  /\ addPath # NoPath
  /\ 0 <= addPath.oldPos - diagonalPath
  /\ addPath.oldPos - diagonalPath < newLen

CanRemove(removePath, oldLen) ==
  removePath # NoPath /\ removePath.oldPos + 1 < oldLen

\* the body of the loop of execEditLength for one diagonal
BasePath(removePath, addPath, diagonalPath, newString, oldString) ==
  IF ~CanAdd(addPath, diagonalPath, Len(newString)) /\ ~CanRemove(removePath, Len(oldString))
  THEN NoPath
  ELSE IF \/ ~CanRemove(removePath, Len(oldString))
          \/ (CanAdd(addPath, diagonalPath, Len(newString)) /\ removePath.oldPos < addPath.oldPos)
  THEN extractCommon(addToPath(addPath, TRUE, FALSE, 0), newString, oldString, diagonalPath)
  ELSE extractCommon(addToPath(removePath, FALSE, TRUE, 1), newString, oldString, diagonalPath)

DiagonalPath(bestPath, diagonalPath, newString, oldString) ==
  BasePath(PathAt(bestPath, diagonalPath - 1), PathAt(bestPath, diagonalPath + 1),
           diagonalPath, newString, oldString)

\* the path has reached the end of both strings
ReachesEnd(path, diagonalPath, newString, oldString) ==
  /\ path # NoPath
  /\ path.oldPos + 1 >= Len(oldString)
  /\ path.oldPos - diagonalPath + 1 >= Len(newString)

Diagonals(editLength) ==
  {d \in (0 - editLength)..editLength : (d + editLength) % 2 = 0}

EndingDiagonals(bestPath, editLength, newString, oldString) ==
  {d \in Diagonals(editLength) :
     ReachesEnd(DiagonalPath(bestPath, d, newString, oldString), d, newString, oldString)}

Least(S) == CHOOSE x \in S : \A y \in S : x <= y

\* execEditLength, repeated until a path reaches the end: the components of
\* the first such path in the order of the diagonals
RECURSIVE execEditLength(_, _, _, _)
execEditLength(bestPath, editLength, newString, oldString) ==
  IF EndingDiagonals(bestPath, editLength, newString, oldString) # {}
  THEN DiagonalPath(bestPath,
         Least(EndingDiagonals(bestPath, editLength, newString, oldString)),
         newString, oldString).components
  ELSE execEditLength(
         [d \in (0 - editLength)..editLength |->
            IF d \in Diagonals(editLength)
            THEN DiagonalPath(bestPath, d, newString, oldString)
            ELSE PathAt(bestPath, d)],
         editLength + 1, newString, oldString)

\* buildValues: the text of every component; a removal is put before the
\* addition it follows
RECURSIVE buildValues(_, _, _, _, _, _)
buildValues(components, componentPos, newString, oldString, newPos, oldPos) ==
  IF componentPos > Len(components) THEN components
  ELSE IF ~components[componentPos].removed
  THEN buildValues(
         [components EXCEPT ![componentPos].value =
            SubSeq(newString, newPos + 1, newPos + components[componentPos].count)],
         componentPos + 1, newString, oldString,
         newPos + components[componentPos].count,
         IF components[componentPos].added THEN oldPos
         ELSE oldPos + components[componentPos].count)
  ELSE IF componentPos > 1 /\ components[componentPos - 1].added
  THEN buildValues(
         [components EXCEPT
            ![componentPos - 1] =
               [components[componentPos] EXCEPT !.value =
                  SubSeq(oldString, oldPos + 1, oldPos + components[componentPos].count)],
            ![componentPos] = components[componentPos - 1]],
         componentPos + 1, newString, oldString, newPos,
         oldPos + components[componentPos].count)
  ELSE buildValues(
         [components EXCEPT ![componentPos].value =
            SubSeq(oldString, oldPos + 1, oldPos + components[componentPos].count)],
         componentPos + 1, newString, oldString, newPos,
         oldPos + components[componentPos].count)

\* the path of edit length 0, then the search
SeededDiff(seed, newString, oldString) ==
  IF ReachesEnd(seed, 0, newString, oldString)
  THEN seed.components
  ELSE execEditLength([d \in {0} |-> seed], 1, newString, oldString)

diffChars(oldStr, newStr) ==
  buildValues(
    SeededDiff(extractCommon([oldPos |-> -1, components |-> <<>>], newStr, oldStr, 0),
               newStr, oldStr),
    1, newStr, oldStr, 0, 0)

(***************************************************************************)
(* services/jsonDiff.ts, character-level diff                               *)
(***************************************************************************)
\* a conversion that gives an addition the running index too
convertToCharChangeIndexed(change, startIndex) ==
  [type |-> IF change.added THEN "add" ELSE IF change.removed THEN "remove" ELSE "equal",
   value |-> change.value,
   startIndex |-> startIndex,
   length |-> Len(change.value)]

\* convertToCharChange (lines 252-259)
convertToCharChange(change, startIndex) ==
  [type |-> IF change.added THEN "add" ELSE IF change.removed THEN "remove" ELSE "equal",
   value |-> change.value,
   startIndex |-> IF change.added THEN -1 ELSE startIndex,
   length |-> Len(change.value)]

\* the loop of calculateCharLevelDiff (lines 276-283)
RECURSIVE CharChangesLoop(_, _, _, _)
CharChangesLoop(changes, i, charChanges, currentIndex) ==
  IF i > Len(changes) THEN charChanges
  ELSE CharChangesLoop(changes, i + 1,
         Append(charChanges, convertToCharChange(changes[i], currentIndex)),
         IF changes[i].added THEN currentIndex ELSE currentIndex + Len(changes[i].value))

\* a variant of calculateCharLevelDiff that keeps the equal runs only
calculateCharLevelDiffEqualRuns(originalText, modifiedText) ==
  SelectSeq(CharChangesLoop(diffChars(originalText, modifiedText), 1, <<>>, 0),
            LAMBDA c : c.type = "equal")

\* calculateCharLevelDiff (lines 268-286)
calculateCharLevelDiff(originalText, modifiedText) ==
  CharChangesLoop(diffChars(originalText, modifiedText), 1, <<>>, 0)

(***************************************************************************)
(* services/jsonDiff.ts, character-level diff of the lines of two texts     *)
(***************************************************************************)
\* str.split('\n')
RECURSIVE SplitNewline(_, _)
SplitNewline(str, line) ==
  IF str = <<>> THEN <<line>>
  ELSE IF Head(str) = "\n" THEN <<line>> \o SplitNewline(Tail(str), <<>>)
  ELSE SplitNewline(Tail(str), Append(line, Head(str)))

\* str.endsWith('\n')
EndsWithNewline(str) == str # <<>> /\ str[Len(str)] = "\n"

\* the tokens of diffLines: the lines, each with the line feed that ends it
RECURSIVE LineTokens(_, _)
LineTokens(value, line) ==
  IF value = <<>> THEN (IF line = <<>> THEN <<>> ELSE <<line>>)
  ELSE IF Head(value) = "\n" THEN <<Append(line, "\n")>> \o LineTokens(Tail(value), <<>>)
  ELSE LineTokens(Tail(value), Append(line, Head(value)))

\* tokens.join('')
RECURSIVE JoinTokens(_)
JoinTokens(tokens) ==
  IF tokens = <<>> THEN <<>> ELSE Head(tokens) \o JoinTokens(Tail(tokens))

\* diffLines(oldStr, newStr) of the diff package: the same search as
\* diffChars over the line tokens, the value of a component being its tokens
\* joined
diffLines(oldStr, newStr) ==
  [i \in 1..Len(diffChars(LineTokens(oldStr, <<>>), LineTokens(newStr, <<>>))) |->
     [diffChars(LineTokens(oldStr, <<>>), LineTokens(newStr, <<>>))[i]
        EXCEPT !.value = JoinTokens(@)]]

\* line 310: the lines of a change; when its value ends with a line feed the
\* empty piece after it is kept
LinesOfChange(lineChange) ==
  SelectSeq(SplitNewline(lineChange.value, <<>>),
            LAMBDA line : line # <<>> \/ EndsWithNewline(lineChange.value))

\* lines[index] || fallback
LineOr(lines, index, fallback) ==
  IF index < Len(lines) /\ lines[index + 1] # <<>> THEN lines[index + 1] ELSE fallback

\* lines 316-327: the result of an added line
AddedLine(line, modifiedLineIndex) ==
  [lineIndex |-> modifiedLineIndex, originalLine |-> <<>>, modifiedLine |-> line,
   charChanges |-> <<[type |-> "add", value |-> line, startIndex |-> -1,
                      length |-> Len(line)]>>,
   hasChanges |-> TRUE]

\* lines 334-345: the result of a removed line
RemovedLine(line, originalLineIndex) ==
  [lineIndex |-> originalLineIndex, originalLine |-> line, modifiedLine |-> <<>>,
   charChanges |-> <<[type |-> "remove", value |-> line, startIndex |-> 0,
                      length |-> Len(line)]>>,
   hasChanges |-> TRUE]

\* lines 352-379: the result of a line of an unchanged block, from the lines
\* found at the two running indices
UnchangedLine(originalLine, modifiedLine, originalLineIndex) ==
  IF originalLine = modifiedLine
  THEN [lineIndex |-> originalLineIndex, originalLine |-> originalLine,
        modifiedLine |-> modifiedLine,
        charChanges |-> <<[type |-> "equal", value |-> originalLine, startIndex |-> 0,
                           length |-> Len(originalLine)]>>,
        hasChanges |-> FALSE]
  ELSE [lineIndex |-> originalLineIndex, originalLine |-> originalLine,
        modifiedLine |-> modifiedLine,
        charChanges |-> calculateCharLevelDiff(originalLine, modifiedLine),
        hasChanges |-> \E k \in 1..Len(calculateCharLevelDiff(originalLine, modifiedLine)) :
                        calculateCharLevelDiff(originalLine, modifiedLine)[k].type # "equal"]

\* the body of the loops over the lines of one change (lines 312-384)
LineStep(lineChange, line, st, originalLines, modifiedLines) ==
  IF lineChange.added
  THEN [results |-> Append(st.results, AddedLine(line, st.modifiedLineIndex)),
        originalLineIndex |-> st.originalLineIndex,
        modifiedLineIndex |-> st.modifiedLineIndex + 1]
  ELSE IF lineChange.removed
  THEN [results |-> Append(st.results, RemovedLine(line, st.originalLineIndex)),
        originalLineIndex |-> st.originalLineIndex + 1,
        modifiedLineIndex |-> st.modifiedLineIndex]
  ELSE [results |->
          Append(st.results,
                 UnchangedLine(LineOr(originalLines, st.originalLineIndex, <<>>),
                               LineOr(modifiedLines, st.modifiedLineIndex, line),
                               st.originalLineIndex)),
        originalLineIndex |-> st.originalLineIndex + 1,
        modifiedLineIndex |-> st.modifiedLineIndex + 1]

RECURSIVE LinesLoop(_, _, _, _, _, _)
LinesLoop(lineChange, lines, i, st, originalLines, modifiedLines) ==
  IF i > Len(lines) THEN st
  ELSE LinesLoop(lineChange, lines, i + 1,
                 LineStep(lineChange, lines[i], st, originalLines, modifiedLines),
                 originalLines, modifiedLines)

\* the loop over lineChanges (line 309)
RECURSIVE LineChangesLoop(_, _, _, _, _)
LineChangesLoop(lineChanges, c, st, originalLines, modifiedLines) ==
  IF c > Len(lineChanges) THEN st.results
  ELSE LineChangesLoop(lineChanges, c + 1,
                       LinesLoop(lineChanges[c], LinesOfChange(lineChanges[c]), 1, st,
                                 originalLines, modifiedLines),
                       originalLines, modifiedLines)

\* calculateMultiLineCharDiff (lines 295-388)
calculateMultiLineCharDiff(originalText, modifiedText) ==
  LineChangesLoop(diffLines(originalText, modifiedText), 1,
                  [results |-> <<>>, originalLineIndex |-> 0, modifiedLineIndex |-> 0],
                  SplitNewline(originalText, <<>>), SplitNewline(modifiedText, <<>>))

(***************************************************************************)
(* The documents and texts the caller may pass                              *)
(***************************************************************************)
\* the most properties of an object, and the most items of an array, drawn
MaxProps == 2
MaxItems == 3

KeyNames == {<<"a">>, <<"b">>, <<"_", "t">>}
LeafValues == {Num(0), Num(1)}
ScalarValues == {Null, Bool(TRUE), Num(0), Num(1), Str(<<"s">>)}
ItemValues == {Num(0), Num(1), Obj(<<>>)}

\* objects of up to MaxProps distinct keys, in every order of the keys
PropSeqs(n) ==
  {p \in [1..n -> KeyNames \X LeafValues] :
     \A i, j \in 1..n : i # j => p[i][1] # p[j][1]}
FlatObjects == {Obj(p) : p \in UNION {PropSeqs(n) : n \in 0..MaxProps}}
SmallObjects == {Obj(p) : p \in PropSeqs(0) \cup PropSeqs(1)}
TypedObjects == {Obj(<<<<(<<"a">>), s>>>>) : s \in ScalarValues}
Arrays == {Arr(items) : items \in UNION {[1..n -> ItemValues] : n \in 0..MaxItems}}
SmallArrays == {Arr(items) : items \in UNION {[1..n -> ItemValues] : n \in 0..1}}
NestedObjects == {Obj(<<<<(<<"a">>), x>>>>) : x \in SmallObjects \cup SmallArrays}
LeafObjects == {Obj(<<>>), Obj(<<<<(<<"b">>), Num(0)>>>>), Obj(<<<<(<<"b">>), Num(1)>>>>)}
Under(x) == Obj(<<<<(<<"a">>), x>>>>)
DeepObjects ==
  {Under(Under(x)) : x \in LeafObjects}
    \cup {Under(Under(Under(x))) : x \in LeafObjects \ {Obj(<<>>)}}

ObjectArrays == {Arr(<<x>>) : x \in LeafObjects}
\* objects with a key that holds the '.' of a keyPath next to the nested
\* object of the same path
DottedObjects ==
  {Obj(<<<<(<<"a", ".", "b">>), x>>, <<(<<"a">>), Obj(<<<<(<<"b">>), x>>>>)>>>>) :
     x \in LeafValues}
    \cup {Obj(<<<<(<<"a">>), Obj(<<<<(<<"b">>), x>>>>)>>, <<(<<"a", ".", "b">>), x>>>>) :
            x \in LeafValues}

Documents ==
  ScalarValues \cup FlatObjects \cup TypedObjects \cup Arrays \cup ObjectArrays
    \cup NestedObjects \cup DeepObjects \cup DottedObjects

\* valid texts that are not the canonical rendering of their value
SpacedText == <<"{", " ", "\"", "a", "\"", " ", ":", " ", "1", " ", "}", "\n">>
DuplicateKeyText == <<"{", "\"", "a", "\"", ":", "0", ",", "\"", "a", "\"", ":", "1", "}">>
\* texts that are not JSON
InvalidTexts ==
  { <<"n", "o", "t", " ", "j", "s", "o", "n">>,
    <<>>,
    <<"{">>,
    <<"[", "1", ",", "]">>,
    <<"{", "\"", "a", "\"", ":", "1", ",", "}">>,
    <<"0", "1">> }

Texts == {Stringify(d) : d \in Documents} \cup {SpacedText, DuplicateKeyText}
           \cup InvalidTexts

\* a Partial<DiffOptions>: the set of <<name, value>> the caller gives
OptionChoices == { {}, {<<"ignoreArrayOrder", TRUE>>, <<"maxDifferences", 1>>} }

\* no character-level diff is asked for
NoCharDiff ==
  /\ leftText = <<>>
  /\ rightText = <<>>
  /\ charResult = <<>>
  /\ lineResult = <<>>

\* no DiffPanel is mounted
NoPanel ==
  /\ currentDiffIndex = -1
  /\ isCalculating = FALSE
  /\ pendingEffects = {}
  /\ deferred = 0
  /\ awaiting = <<>>
  /\ keyHandler = Undefined
  /\ uncaught = FALSE

\* nothing is exported
NoExport == patch = <<>> /\ html = <<>> /\ textOut = <<>>

\* no Tabs is mounted
NoTabs ==
  /\ tabs = <<>>
  /\ activeTab = Undefined
  /\ selected = <<>>
  /\ clicked = <<>>
  /\ calls = <<>>

Init ==
  /\ originalJSON \in Texts
  /\ modifiedJSON \in Texts
  /\ options \in OptionChoices
  /\ pc = "idle"
  /\ comparison = Undefined
  /\ NoCharDiff
  /\ NoPanel
  /\ NoExport
  /\ NoTabs

\* one call compareJSON(originalJSON, modifiedJSON, options)
Compare ==
  /\ pc = "idle"
  /\ LET r == calculateDiffSync(originalJSON, modifiedJSON, options)
     IN /\ pc' = IF r.thrown THEN "thrown" ELSE "returned"
        /\ comparison' = r.value
  /\ UNCHANGED <<originalJSON, modifiedJSON, options, charVars, panelVars, exportVars, tabVars>>

Next == Compare

Spec == Init /\ [][Next]_vars

\* no comparison is asked for
NoComparison ==
  /\ originalJSON = <<>>
  /\ modifiedJSON = <<>>
  /\ options = {}
  /\ comparison = Undefined

(***************************************************************************)
(* The strings given to calculateCharLevelDiff, and its call                *)
(***************************************************************************)
MaxText == 3
CharAlphabet == {"a", "b", "c"}
Strings == UNION {[1..n -> CharAlphabet] : n \in 0..MaxText}

CharInit ==
  /\ leftText \in Strings
  /\ rightText \in Strings
  /\ charResult = <<>>
  /\ lineResult = <<>>
  /\ pc = "idle"
  /\ NoComparison
  /\ NoPanel
  /\ NoExport
  /\ NoTabs

\* one call calculateCharLevelDiff(leftText, rightText)
CharDiff ==
  /\ pc = "idle"
  /\ charResult' = calculateCharLevelDiff(leftText, rightText)
  /\ pc' = "returned"
  /\ UNCHANGED <<leftText, rightText, lineResult, diffVars, panelVars, exportVars, tabVars>>

CharNext == CharDiff

CharSpec == CharInit /\ [][CharNext]_vars

(***************************************************************************)
(* The texts given to calculateMultiLineCharDiff, and its call              *)
(***************************************************************************)
MaxLineText == 4
LineAlphabet == {"a", "b", "\n"}
LineTexts == UNION {[1..n -> LineAlphabet] : n \in 0..MaxLineText}

MultiInit ==
  /\ leftText \in LineTexts
  /\ rightText \in LineTexts
  /\ charResult = <<>>
  /\ lineResult = <<>>
  /\ pc = "idle"
  /\ NoComparison
  /\ NoPanel
  /\ NoExport
  /\ NoTabs

\* one call calculateMultiLineCharDiff(leftText, rightText)
MultiLineDiff ==
  /\ pc = "idle"
  /\ lineResult' = calculateMultiLineCharDiff(leftText, rightText)
  /\ pc' = "returned"
  /\ UNCHANGED <<leftText, rightText, charResult, diffVars, panelVars, exportVars, tabVars>>

MultiNext == MultiLineDiff

MultiSpec == MultiInit /\ [][MultiNext]_vars

(***************************************************************************)
(* components/DiffPanel/DiffPanel.tsx.  A handler runs to its end and its   *)
(* state updates are committed together; the effects a commit leaves to run *)
(* are run later, all at once (FlushEffects), and other callbacks may come  *)
(* in between.  The continuation of the await of performDiff is a microtask *)
(* and runs before any other callback.  An effect reads the state as it is  *)
(* when it runs.  localStorage, viewMode, clearAction and the scrolling are *)
(* left out.                                                                *)
(***************************************************************************)
\* calculateDiff (lines 234-241 of jsonDiff.ts): a promise settled with the
\* result of calculateDiffSync
calculateDiff(orig, mod, opts) == calculateDiffSync(orig, mod, opts)

\* text.trim() over the whitespace of the texts considered
RECURSIVE TrimStart(_)
TrimStart(text) ==
  IF text # <<>> /\ text[1] = " " THEN TrimStart(Tail(text)) ELSE text

RECURSIVE TrimEnd(_)
TrimEnd(text) ==
  IF text # <<>> /\ text[Len(text)] = " "
  THEN TrimEnd(SubSeq(text, 1, Len(text) - 1))
  ELSE text

Trim(text) == TrimEnd(TrimStart(text))

\* !comparison || comparison.differences.length === 0 (lines 144, 170)
NothingToNavigate(cmp) == cmp = Null \/ Len(cmp.differences) = 0

\* a variant of line 146 without the wrap-around
NextIndexUnwrapped(index, length) == index + 1

\* line 146
NextIndex(index, length) == (index + 1) % length

\* lines 172-174
PreviousIndex(index, length) == IF index = 0 THEN length - 1 ELSE index - 1

\* the outcome of a navigation handler that sets the index to target and
\* then reads comparison.differences[target].id (lines 147-150, 175-178)
NavigateTo(cmp, target) ==
  [set |-> TRUE, index |-> target,
   thrown |-> target \notin 0..(Len(cmp.differences) - 1)]

\* the early return of lines 144 and 170: the index is not set
NotNavigated == [set |-> FALSE, index |-> -1, thrown |-> FALSE]

\* the index after a handler with the outcome nav
IndexAfter(nav) == IF nav.set THEN nav.index ELSE currentDiffIndex

\* navigateToNext (lines 143-166) in a render that holds cmp and index
navigateToNext(cmp, index) ==
  IF NothingToNavigate(cmp)
  THEN NotNavigated
  ELSE NavigateTo(cmp, NextIndex(index, Len(cmp.differences)))

\* navigateToPrevious (lines 169-194) in a render that holds cmp and index
navigateToPrevious(cmp, index) ==
  IF NothingToNavigate(cmp)
  THEN NotNavigated
  ELSE NavigateTo(cmp, PreviousIndex(index, Len(cmp.differences)))

\* the effects a commit leaves to run, by what it changed (the dependency
\* lists of lines 131, 140 and 233)
EffectsOf(inputsChanged, comparisonChanged, indexChanged) ==
  (IF inputsChanged THEN {"diff"} ELSE {})
    \cup (IF comparisonChanged THEN {"reset", "keys"} ELSE {})
    \cup (IF indexChanged THEN {"keys"} ELSE {})

\* the most callbacks that come in between a commit and its effects
MaxDeferred == 1

\* a callback may run: no await is to resume and, when effects are left to
\* run, fewer than MaxDeferred callbacks came before them
MayRun == awaiting = <<>> /\ (pendingEffects = {} \/ deferred < MaxDeferred)

\* how far below 0 the index is followed
MaxUnderrun == 3

\* the callbacks run before the effects that are left
Deferred == IF pendingEffects = {} THEN 0 ELSE deferred + 1

\* the texts typed into the two inputs
PanelTexts ==
  {<<>>, <<" ">>, <<"{">>,
   Stringify(Arr(<<>>)), Stringify(Arr(<<Num(0)>>)),
   Stringify(Arr(<<Num(0), Num(0), Num(0)>>))}
\* and, for the modified input, a document whose comparison with an array
\* nests deeper than the stack has room for
ModifiedTexts == PanelTexts \cup {Stringify(Under(Under(Obj(<<>>))))}

\* the diffOptions the two checkboxes lead to from DEFAULT_DIFF_OPTIONS
PanelOptions == { {<<"ignoreArrayOrder", b>>} : b \in BOOLEAN }

\* the component after its first render (lines 45-65), the inputs being those
\* loaded from localStorage (lines 86-92); every effect is still to run
PanelInit ==
  /\ originalJSON \in PanelTexts
  /\ modifiedJSON \in ModifiedTexts
  /\ options = {<<"ignoreArrayOrder", FALSE>>}
  /\ comparison = Null
  /\ currentDiffIndex = -1
  /\ isCalculating = FALSE
  /\ pendingEffects = {"diff", "reset", "keys"}
  /\ deferred = 0
  /\ awaiting = <<>>
  /\ keyHandler = Undefined
  /\ uncaught = FALSE
  /\ pc = "render"
  /\ NoCharDiff
  /\ NoExport
  /\ NoTabs

\* onOriginalChange = setOriginalJSON (line 242)
SetOriginalJSON ==
  /\ MayRun
  /\ deferred' = Deferred
  /\ \E text \in PanelTexts :
       /\ originalJSON' = text
       /\ pendingEffects' = pendingEffects \cup EffectsOf(text # originalJSON, FALSE, FALSE)
  /\ pc' = "setOriginalJSON"
  /\ uncaught' = FALSE
  /\ UNCHANGED <<modifiedJSON, options, comparison, currentDiffIndex, isCalculating,
                 awaiting, keyHandler, charVars, exportVars, tabVars>>

\* onModifiedChange = setModifiedJSON (line 243)
SetModifiedJSON ==
  /\ MayRun
  /\ deferred' = Deferred
  /\ \E text \in ModifiedTexts :
       /\ modifiedJSON' = text
       /\ pendingEffects' = pendingEffects \cup EffectsOf(text # modifiedJSON, FALSE, FALSE)
  /\ pc' = "setModifiedJSON"
  /\ uncaught' = FALSE
  /\ UNCHANGED <<originalJSON, options, comparison, currentDiffIndex, isCalculating,
                 awaiting, keyHandler, charVars, exportVars, tabVars>>

\* the onChange of the ignoreArrayOrder checkbox (lines 267-269): a new
\* diffOptions object
SetDiffOptions ==
  /\ MayRun
  /\ deferred' = Deferred
  /\ \E opts \in PanelOptions : opts # options /\ options' = opts
  /\ pendingEffects' = pendingEffects \cup EffectsOf(TRUE, FALSE, FALSE)
  /\ pc' = "setDiffOptions"
  /\ uncaught' = FALSE
  /\ UNCHANGED <<originalJSON, modifiedJSON, comparison, currentDiffIndex, isCalculating,
                 awaiting, keyHandler, charVars, exportVars, tabVars>>

\* handleClearBoth (lines 197-217); its button is enabled when one input is
\* not empty (line 281)
HandleClearBoth ==
  /\ MayRun
  /\ deferred' = Deferred
  /\ originalJSON # <<>> \/ modifiedJSON # <<>>
  /\ originalJSON' = <<>>
  /\ modifiedJSON' = <<>>
  /\ comparison' = Null
  /\ currentDiffIndex' = -1
  /\ pendingEffects' =
       pendingEffects \cup EffectsOf(TRUE, comparison # Null, currentDiffIndex # -1)
  /\ pc' = "handleClearBoth"
  /\ uncaught' = FALSE
  /\ UNCHANGED <<options, isCalculating, awaiting, keyHandler, charVars, exportVars, tabVars>>

\* DiffNavigation is rendered, with its two buttons (lines 302-323 and
\* DiffNavigation.tsx, totalCount === 0)
NavigationShown ==
  /\ ~isCalculating
  /\ comparison # Null
  /\ comparison.status = "completed"
  /\ Len(comparison.differences) # 0

\* a click on the next button: navigateToNext of the last render
ClickNext ==
  /\ MayRun
  /\ deferred' = Deferred
  /\ NavigationShown
  /\ currentDiffIndex' = IndexAfter(navigateToNext(comparison, currentDiffIndex))
  /\ currentDiffIndex' >= 0 - MaxUnderrun
  /\ uncaught' = navigateToNext(comparison, currentDiffIndex).thrown
  /\ pendingEffects' =
       pendingEffects \cup EffectsOf(FALSE, FALSE, currentDiffIndex' # currentDiffIndex)
  /\ pc' = "navigateToNext"
  /\ UNCHANGED <<originalJSON, modifiedJSON, options, comparison, isCalculating,
                 awaiting, keyHandler, charVars, exportVars, tabVars>>

\* a click on the previous button: navigateToPrevious of the last render
ClickPrevious ==
  /\ MayRun
  /\ deferred' = Deferred
  /\ NavigationShown
  /\ currentDiffIndex' = IndexAfter(navigateToPrevious(comparison, currentDiffIndex))
  /\ currentDiffIndex' >= 0 - MaxUnderrun
  /\ uncaught' = navigateToPrevious(comparison, currentDiffIndex).thrown
  /\ pendingEffects' =
       pendingEffects \cup EffectsOf(FALSE, FALSE, currentDiffIndex' # currentDiffIndex)
  /\ pc' = "navigateToPrevious"
  /\ UNCHANGED <<originalJSON, modifiedJSON, options, comparison, isCalculating,
                 awaiting, keyHandler, charVars, exportVars, tabVars>>

\* Alt+N (lines 221-224): navigateToNext of the render the listener was
\* registered in
KeyNext ==
  /\ MayRun
  /\ deferred' = Deferred
  /\ keyHandler # Undefined
  /\ currentDiffIndex' =
       IndexAfter(navigateToNext(keyHandler.comparison, keyHandler.currentDiffIndex))
  /\ currentDiffIndex' >= 0 - MaxUnderrun
  /\ uncaught' = navigateToNext(keyHandler.comparison, keyHandler.currentDiffIndex).thrown
  /\ pendingEffects' =
       pendingEffects \cup EffectsOf(FALSE, FALSE, currentDiffIndex' # currentDiffIndex)
  /\ pc' = "Alt+N"
  /\ UNCHANGED <<originalJSON, modifiedJSON, options, comparison, isCalculating,
                 awaiting, keyHandler, charVars, exportVars, tabVars>>

\* Alt+P (lines 225-227)
KeyPrevious ==
  /\ MayRun
  /\ deferred' = Deferred
  /\ keyHandler # Undefined
  /\ currentDiffIndex' =
       IndexAfter(navigateToPrevious(keyHandler.comparison, keyHandler.currentDiffIndex))
  /\ currentDiffIndex' >= 0 - MaxUnderrun
  /\ uncaught' =
       navigateToPrevious(keyHandler.comparison, keyHandler.currentDiffIndex).thrown
  /\ pendingEffects' =
       pendingEffects \cup EffectsOf(FALSE, FALSE, currentDiffIndex' # currentDiffIndex)
  /\ pc' = "Alt+P"
  /\ UNCHANGED <<originalJSON, modifiedJSON, options, comparison, isCalculating,
                 awaiting, keyHandler, charVars, exportVars, tabVars>>

\* the effect of lines 105-131 clears the comparison: an input is blank
InputBlank == Trim(originalJSON) = <<>> \/ Trim(modifiedJSON) = <<>>

\* the effect of lines 134-140
ResetIndex == IF NothingToNavigate(comparison) THEN -1 ELSE 0

\* the pending effects, in the order of their declaration: the diff effect
\* (lines 105-131, up to the await), the index reset (lines 134-140) and the
\* registration of the keydown listener (lines 220-233)
FlushEffects ==
  /\ awaiting = <<>>
  /\ pendingEffects # {}
  /\ comparison' =
       IF "diff" \in pendingEffects /\ InputBlank THEN Null ELSE comparison
  /\ isCalculating' =
       IF "diff" \in pendingEffects /\ ~InputBlank THEN TRUE ELSE isCalculating
  /\ awaiting' =
       IF "diff" \in pendingEffects /\ ~InputBlank
       THEN <<calculateDiff(originalJSON, modifiedJSON, options)>>
       ELSE <<>>
  /\ currentDiffIndex' =
       IF "reset" \in pendingEffects THEN ResetIndex ELSE currentDiffIndex
  /\ keyHandler' =
       IF "keys" \in pendingEffects
       THEN [comparison |-> comparison, currentDiffIndex |-> currentDiffIndex]
       ELSE keyHandler
  /\ pendingEffects' =
       EffectsOf(FALSE, comparison' # comparison, currentDiffIndex' # currentDiffIndex)
  /\ deferred' = 0
  /\ pc' = "useEffect"
  /\ uncaught' = FALSE
  /\ UNCHANGED <<originalJSON, modifiedJSON, options, charVars, exportVars, tabVars>>

\* performDiff after its await (lines 121-127): the result is set, or the
\* rejection is logged; a result is a new object, so the comparison changes
ResumePerformDiff ==
  /\ awaiting # <<>>
  /\ comparison' = IF awaiting[1].thrown THEN comparison ELSE awaiting[1].value
  /\ isCalculating' = FALSE
  /\ awaiting' = Tail(awaiting)
  /\ pendingEffects' = pendingEffects \cup EffectsOf(FALSE, ~awaiting[1].thrown, FALSE)
  /\ deferred' = 0
  /\ pc' = "performDiff"
  /\ uncaught' = FALSE
  /\ UNCHANGED <<originalJSON, modifiedJSON, options, currentDiffIndex, keyHandler,
                 charVars, exportVars, tabVars>>

PanelNext ==
  \/ SetOriginalJSON
  \/ SetModifiedJSON
  \/ SetDiffOptions
  \/ HandleClearBoth
  \/ ClickNext
  \/ ClickPrevious
  \/ KeyNext
  \/ KeyPrevious
  \/ FlushEffects
  \/ ResumePerformDiff

PanelSpec == PanelInit /\ [][PanelNext]_vars

(***************************************************************************)
(* compare(tree1, tree2) of fast-json-patch, as called by generateJSONPatch *)
(* (not invertible).  An operation is [op, path, value]; a remove has the   *)
(* value Undefined.                                                         *)
(***************************************************************************)
\* _objectKeys and hasOwnProperty: the keys of an array or a string are its
\* indices
PatchKeys(x) ==
  IF x.t = "string" THEN [i \in 1..Len(x.v) |-> NatToStr(i - 1)] ELSE Keys(x)

PatchGet(x, k) ==
  IF x.t = "string"
  THEN IF IsIndexKey(k) /\ StrToNat(k) < Len(x.v) THEN Str(<<x.v[StrToNat(k) + 1]>>)
       ELSE Undefined
  ELSE Get(x, k)

PatchHas(x, k) == \E i \in 1..Len(PatchKeys(x)) : PatchKeys(x)[i] = k

\* escapePathComponent: ~ becomes ~0 and / becomes ~1
RECURSIVE escapePathComponent(_)
escapePathComponent(path) ==
  IF path = <<>> THEN <<>>
  ELSE (IF path[1] = "~" THEN <<"~", "0">>
        ELSE IF path[1] = "/" THEN <<"~", "1">>
        ELSE <<path[1]>>) \o escapePathComponent(Tail(path))

\* typeof v == "object" && v != null
IsTree(v) == v.t \in {"array", "object"}

PatchOp(op, path, value) == [op |-> op, path |-> path, value |-> value]

RECURSIVE Generate(_, _, _)
RECURSIVE OldKeysLoop(_, _, _, _, _)
RECURSIVE NewKeysLoop(_, _, _, _, _)

\* the second loop of _generate: an add for every key the mirror lacks
NewKeysLoop(mirror, obj, path, t, patches) ==
  IF t > Len(PatchKeys(obj)) THEN patches
  ELSE NewKeysLoop(mirror, obj, path, t + 1,
         IF ~PatchHas(mirror, PatchKeys(obj)[t])
         THEN Append(patches,
                PatchOp("add", path \o <<"/">> \o escapePathComponent(PatchKeys(obj)[t]),
                        PatchGet(obj, PatchKeys(obj)[t])))
         ELSE patches)

\* the end of _generate: nothing more when no key was deleted and the numbers
\* of keys are equal
GenerateEnd(mirror, obj, path, st) ==
  IF ~st.deleted /\ Len(PatchKeys(obj)) = Len(PatchKeys(mirror))
  THEN st.patches
  ELSE NewKeysLoop(mirror, obj, path, 1, st.patches)

\* one key of the first loop of _generate, in both trees
SharedKey(oldVal, newVal, keyPath, st) ==
  IF IsTree(oldVal) /\ IsTree(newVal) /\ IsArray(oldVal) = IsArray(newVal)
  THEN [st EXCEPT !.patches = @ \o Generate(oldVal, newVal, keyPath)]
  ELSE IF ~StrictEquals(oldVal, newVal)
  THEN [st EXCEPT !.patches = Append(@, PatchOp("replace", keyPath, newVal))]
  ELSE st

\* one key of the first loop of _generate
OldKey(mirror, obj, path, key, st) ==
  IF PatchHas(obj, key)
  THEN SharedKey(PatchGet(mirror, key), PatchGet(obj, key),
                 path \o <<"/">> \o escapePathComponent(key), st)
  ELSE IF IsArray(mirror) = IsArray(obj)
  THEN [patches |->
          Append(st.patches,
                 PatchOp("remove", path \o <<"/">> \o escapePathComponent(key), Undefined)),
        deleted |-> TRUE]
  ELSE [st EXCEPT !.patches = Append(@, PatchOp("replace", path, obj))]

\* the first loop of _generate, over the keys of the mirror from the last to
\* the first: st = [patches, deleted]
OldKeysLoop(mirror, obj, path, t, st) ==
  IF t < 1 THEN GenerateEnd(mirror, obj, path, st)
  ELSE OldKeysLoop(mirror, obj, path, t - 1,
                   OldKey(mirror, obj, path, PatchKeys(mirror)[t], st))

\* _generate(mirror, obj, patches, path): the operations it pushes
Generate(mirror, obj, path) ==
  IF StrictEquals(mirror, obj) THEN <<>>
  ELSE OldKeysLoop(mirror, obj, path, Len(PatchKeys(mirror)),
                   [patches |-> <<>>, deleted |-> FALSE])

compare(tree1, tree2) == Generate(tree1, tree2, <<>>)

(***************************************************************************)
(* services/diffExport.ts                                                   *)
(***************************************************************************)
\* !x
Falsy(x) ==
  \/ x.t \in {"undefined", "null"}
  \/ (x.t = "boolean" /\ x.v = FALSE)
  \/ (x.t = "number" /\ x.v = 0)
  \/ (x.t = "string" /\ x.v = <<>>)

\* a variant of generateJSONPatch without the guard of lines 29-31: compare
\* throws on a tree that is undefined
generateJSONPatchUnguarded(cmp) ==
  IF cmp.originalParsed = Undefined \/ cmp.modifiedParsed = Undefined
  THEN [thrown |-> TRUE, value |-> <<>>]
  ELSE [thrown |-> FALSE, value |-> compare(cmp.originalParsed, cmp.modifiedParsed)]

\* generateJSONPatch (lines 28-35): [thrown, value]
generateJSONPatch(cmp) ==
  IF Falsy(cmp.originalParsed) \/ Falsy(cmp.modifiedParsed)
  THEN [thrown |-> FALSE, value |-> <<>>]
  ELSE [thrown |-> FALSE, value |-> compare(cmp.originalParsed, cmp.modifiedParsed)]

\* The document of exportAsHTML is a sequence of pieces: a piece of the
\* template is one string, an interpolated value gives its characters one by
\* one.  The style sheet and the date are one piece each.
HtmlHead ==
  <<"<!DOCTYPE html><html lang=\"zh-TW\"><head>", "<style>", "</style>", "</head><body>",
    "<div class=\"header\"><h1>JSON Diff Result</h1><p>Generated: ", "toLocaleString",
    "</p></div>">>

HtmlSummary(summary) ==
  <<"<div class=\"summary\"><h2>Summary</h2><p>Total Changes: <strong>">>
    \o NumToStr(summary.totalChanges)
    \o <<"</strong></p><ul><li>Additions: ">> \o NumToStr(summary.additionCount)
    \o <<"</li><li>Deletions: ">> \o NumToStr(summary.deletionCount)
    \o <<"</li><li>Modifications: ">> \o NumToStr(summary.modificationCount)
    \o <<"</li></ul></div>", "<h2>Changes</h2>">>

\* lines 151-157: the pieces of one change
HtmlChange(change) ==
  <<"<div class=\"change ", change.type, "\">", "<div class=\"change-type\">", change.type,
    "</div>", "<div class=\"change-path\">">>
    \o change.keyPath
    \o <<"</div>", "<div class=\"change-details\">">>
    \o change.displayText
    \o <<"</div>", "</div>">>

RECURSIVE HtmlChanges(_)
HtmlChanges(differences) ==
  IF differences = <<>> THEN <<>>
  ELSE HtmlChange(differences[1]) \o HtmlChanges(Tail(differences))

\* exportAsHTML (lines 66-165): the content of the Blob
exportAsHTML(cmp) ==
  HtmlHead \o HtmlSummary(cmp.summary) \o HtmlChanges(cmp.differences)
    \o <<"</body></html>">>

\* String.prototype.toUpperCase on the type of a change
toUpperCase(type) ==
  IF type = "addition" THEN "ADDITION"
  ELSE IF type = "deletion" THEN "DELETION"
  ELSE IF type = "modification" THEN "MODIFICATION"
  ELSE type

\* '='.repeat(60) and '-'.repeat(60), one piece each
DoubleRule == <<"============================================================">>
SingleRule == <<"------------------------------------------------------------">>

\* lines 43-52 of formatAsText: the header and the counts, line by line
TextHead(summary) ==
  << DoubleRule, <<"JSON Diff Result">>, DoubleRule, <<>>,
     <<"Total Changes: ">> \o NumToStr(summary.totalChanges),
     <<"  Additions: ">> \o NumToStr(summary.additionCount),
     <<"  Deletions: ">> \o NumToStr(summary.deletionCount),
     <<"  Modifications: ">> \o NumToStr(summary.modificationCount),
     <<>>, SingleRule >>

\* an entry numbered by the index of forEach as it is
TextEntryFromZero(change, index) ==
  << <<"[">> \o NatToStr(index) \o <<"] ", toUpperCase(change.type), ": ">> \o change.keyPath,
     <<"    ">> \o change.displayText,
     <<>> >>

\* lines 55-57: the three lines pushed for the change at index (from 0)
TextEntry(change, index) ==
  << <<"[">> \o NatToStr(index + 1) \o <<"] ", toUpperCase(change.type), ": ">>
       \o change.keyPath,
     <<"    ">> \o change.displayText,
     <<>> >>

\* lines 54-58: differences.forEach
RECURSIVE TextEntries(_, _)
TextEntries(differences, index) ==
  IF index >= Len(differences) THEN <<>>
  ELSE TextEntry(differences[index + 1], index) \o TextEntries(differences, index + 1)

\* formatAsText (lines 40-61): lines.join('\n')
formatAsText(cmp) ==
  Join(TextHead(cmp.summary) \o TextEntries(cmp.differences, 0), <<"\n">>)

\* the texts compared before an export
ExportTexts ==
  {<<"{">>, Stringify(Num(0)), Stringify(Num(1))}
    \cup {Stringify(Obj(<<>>))}
    \cup {Stringify(Obj(<< <<k, v>> >>)) :
            k \in {<<"a">>, <<"<", "b", ">">>, <<"a", "/", "b">>},
            v \in {Num(0), Str(<<"&">>), Str(<<"<", "i", ">">>)}}
    \cup {Stringify(Arr(<<Num(0)>>)), Stringify(Arr(<<Num(0), Num(1)>>))}

ExportInit ==
  /\ originalJSON \in ExportTexts
  /\ modifiedJSON \in ExportTexts
  /\ options = {}
  /\ pc = "idle"
  /\ comparison = Undefined
  /\ NoCharDiff
  /\ NoPanel
  /\ NoExport
  /\ NoTabs

\* generateJSONPatch(comparison) on the comparison returned
GenerateJSONPatch ==
  /\ pc = "returned"
  /\ pc' = IF generateJSONPatch(comparison).thrown THEN "patch thrown" ELSE "patched"
  /\ patch' = generateJSONPatch(comparison).value
  /\ UNCHANGED <<diffVars, charVars, panelVars, html, textOut, tabVars>>

\* exportAsHTML(comparison) on the comparison returned
ExportAsHTML ==
  /\ pc = "returned"
  /\ pc' = "exported"
  /\ html' = exportAsHTML(comparison)
  /\ UNCHANGED <<diffVars, charVars, panelVars, patch, textOut, tabVars>>

\* formatAsText(comparison) on the comparison returned
FormatAsText ==
  /\ pc = "returned"
  /\ pc' = "formatted"
  /\ textOut' = formatAsText(comparison)
  /\ UNCHANGED <<diffVars, charVars, panelVars, patch, html, tabVars>>

ExportNext == Compare \/ GenerateJSONPatch \/ ExportAsHTML \/ FormatAsText

ExportSpec == ExportInit /\ [][ExportNext]_vars

(***************************************************************************)
(* components/Tabs.tsx                                                      *)
(***************************************************************************)
\* type FormatType of types/index.ts
FormatType == {"json", "xml", "yaml", "csv", "sql"}

\* interface Tab; the label is not what the tab is told by
Tab(key) == [key |-> key, label |-> key]

\* aria-selected={activeTab === tab.key} (and the class 'active') of one button
ariaSelected(tab, active) == active = tab.key

\* the buttons of tabs.map(...): aria-selected of each, in the order of tabs
Buttons(tabList, active) ==
  [i \in 1..Len(tabList) |-> ariaSelected(tabList[i], active)]

\* a handler that reports the tab shown as active instead of the one clicked
onClickActive(tab) == activeTab

\* onClick={() => onTabChange(tab.key)}: the argument of the one call made
onClick(tab) == tab.key

\* the most tabs given, and the most clicks followed
MaxTabs == 3
MaxClicks == 3

\* lists of up to MaxTabs tabs of distinct keys (the React key of a button is
\* its tab.key)
TabLists ==
  {t \in UNION {[1..n -> {Tab(k) : k \in FormatType}] : n \in 1..MaxTabs} :
     \A i, j \in 1..Len(t) : i # j => t[i].key # t[j].key}

\* the mount <Tabs tabs={...} activeTab={...} onTabChange={...} />
TabsInit ==
  /\ tabs \in TabLists
  /\ activeTab \in FormatType
  /\ selected = Buttons(tabs, activeTab)
  /\ clicked = <<>>
  /\ calls = <<>>
  /\ pc = "mounted"
  /\ NoComparison
  /\ NoCharDiff
  /\ NoPanel
  /\ NoExport

\* a click on the i-th button: its onClick calls onTabChange once
ClickTab ==
  /\ pc \in {"mounted", "clicked", "rendered"}
  /\ Len(clicked) < MaxClicks
  /\ \E i \in 1..Len(tabs) :
       /\ clicked' = Append(clicked, tabs[i].key)
       /\ calls' = Append(calls, onClick(tabs[i]))
  /\ pc' = "clicked"
  /\ UNCHANGED <<tabs, activeTab, selected, diffVars, charVars, panelVars, exportVars>>

\* the parent renders Tabs again with another activeTab (App passes
\* setActiveTab as onTabChange; the tests pass a mock and rerender by hand)
RenderTabs ==
  /\ pc \in {"mounted", "clicked", "rendered"}
  /\ \E key \in FormatType :
       /\ key # activeTab
       /\ activeTab' = key
       /\ selected' = Buttons(tabs, key)
  /\ pc' = "rendered"
  /\ UNCHANGED <<tabs, clicked, calls, diffVars, charVars, panelVars, exportVars>>

TabsNext == ClickTab \/ RenderTabs

TabsSpec == TabsInit /\ [][TabsNext]_vars

(***************************************************************************)
(* Properties                                                               *)
(***************************************************************************)
\* the texts of the caller that are JSON, by construction of Texts
IsJSONText(text) == text \notin InvalidTexts

Returned == pc = "returned"
Completed == pc = "returned" /\ comparison.status = "completed"
Failed == pc = "returned" /\ comparison.status = "error"

ZeroCounts(summary) ==
  /\ summary.totalChanges = 0
  /\ summary.additionCount = 0
  /\ summary.deletionCount = 0
  /\ summary.modificationCount = 0

\* C1: in every Comparison returned, completed or error, summary.totalChanges
\* is additionCount + deletionCount + modificationCount.
C1_SummaryInvariant ==
  Returned =>
    comparison.summary.totalChanges =
      comparison.summary.additionCount + comparison.summary.deletionCount
        + comparison.summary.modificationCount

\* a completed Comparison holding a deletion and another kind of change
C1_Witness ==
  /\ Completed
  /\ comparison.summary.deletionCount > 0
  /\ comparison.summary.additionCount + comparison.summary.modificationCount > 0

\* C2: for every valid JSON text a, compareJSON(a, a) is completed, has no
\* differences and all its summary counts are zero.
C2_Equality ==
  (pc # "idle" /\ originalJSON = modifiedJSON /\ IsJSONText(originalJSON)) =>
    /\ Completed
    /\ comparison.differences = <<>>
    /\ ZeroCounts(comparison.summary)

\* C3: the status is "error" exactly when an input is not valid JSON; the code
\* is PARSE_ERROR_ORIGINAL whenever the original is invalid, PARSE_ERROR_MODIFIED
\* when only the modified is, the message is the parser's; two valid inputs
\* give "completed" with a null error.
C3_ErrorStatus ==
  Returned =>
    /\ comparison.status = "error" <=>
         ~(IsJSONText(originalJSON) /\ IsJSONText(modifiedJSON))
    /\ ~IsJSONText(originalJSON) =>
         /\ comparison.error.code = "PARSE_ERROR_ORIGINAL"
         /\ comparison.error.message = JSONParse(originalJSON).err
         /\ comparison.error.message # ""
    /\ (IsJSONText(originalJSON) /\ ~IsJSONText(modifiedJSON)) =>
         /\ comparison.error.code = "PARSE_ERROR_MODIFIED"
         /\ comparison.error.message = JSONParse(modifiedJSON).err
         /\ comparison.error.message # ""
    /\ (IsJSONText(originalJSON) /\ IsJSONText(modifiedJSON)) =>
         /\ comparison.status = "completed"
         /\ comparison.error = Null

\* both texts invalid, reported against the original
C3_Witness ==
  /\ Failed
  /\ ~IsJSONText(originalJSON)
  /\ ~IsJSONText(modifiedJSON)
  /\ originalJSON # modifiedJSON
  /\ comparison.error.code = "PARSE_ERROR_ORIGINAL"

\* C4: a Comparison with status "error" carries no partial result: no
\* differences, zero counts, no delta, no parsed values, also when one of the
\* inputs was valid.
C4_NoPartialResult ==
  Failed =>
    /\ comparison.differences = <<>>
    /\ ZeroCounts(comparison.summary)
    /\ comparison.delta = Undefined
    /\ comparison.originalParsed = Undefined
    /\ comparison.modifiedParsed = Undefined

\* an error Comparison whose original text was a valid, non-empty document
C4_Witness ==
  /\ Failed
  /\ IsJSONText(originalJSON)
  /\ JSONParse(originalJSON).val \in FlatObjects \ {Obj(<<>>)}
  /\ comparison.error.code = "PARSE_ERROR_MODIFIED"

\* C5: compareJSON never throws; a failure while computing or flattening the
\* delta of two valid inputs comes back as status "error" with the code
\* CALCULATION_ERROR.
C5_NeverThrows == pc # "thrown"

\* the summary of compareJSON(a, b) when it returns
SummaryOf(a, b) == calculateDiffSync(a, b, options).value.summary
BothReturn(a, b) ==
  ~calculateDiffSync(a, b, options).thrown /\ ~calculateDiffSync(b, a, options).thrown

\* C7: for valid texts a and b, compareJSON(b, a) has the additionCount and
\* deletionCount of compareJSON(a, b) swapped and the same modificationCount.
C7_CountSymmetry ==
  (Completed /\ BothReturn(originalJSON, modifiedJSON)) =>
    /\ SummaryOf(modifiedJSON, originalJSON).additionCount = comparison.summary.deletionCount
    /\ SummaryOf(modifiedJSON, originalJSON).deletionCount = comparison.summary.additionCount
    /\ SummaryOf(modifiedJSON, originalJSON).modificationCount
         = comparison.summary.modificationCount

\* deep structural equality of two JSON values, whatever the order of keys
RECURSIVE DeepEqual(_, _)
DeepEqual(a, b) ==
  IF a.t # b.t THEN FALSE
  ELSE IF a.t = "array"
  THEN Len(a.v) = Len(b.v) /\ \A i \in 1..Len(a.v) : DeepEqual(a.v[i], b.v[i])
  ELSE IF a.t = "object"
  THEN /\ Len(a.v) = Len(b.v)
       /\ \A i \in 1..Len(a.v) :
            HasProp(b.v, a.v[i][1]) /\ DeepEqual(a.v[i][2], GetProp(b.v, a.v[i][1]))
  ELSE a.v = b.v

\* every key of object a but k is a key of object b, with an equal value
SameButKey(a, b, k) ==
  \A i \in 1..Len(a.v) :
    a.v[i][1] # k => (HasProp(b.v, a.v[i][1]) /\ DeepEqual(a.v[i][2], GetProp(b.v, a.v[i][1])))

\* x is an object, and so is what every prefix of path leads to
RECURSIVE PathExists(_, _)
PathExists(x, path) ==
  /\ x.t = "object"
  /\ path # <<>> => (HasProp(x.v, path[1]) /\ PathExists(GetProp(x.v, path[1]), Tail(path)))

RECURSIVE ValueAt(_, _)
ValueAt(x, path) == IF path = <<>> THEN x ELSE ValueAt(GetProp(x.v, path[1]), Tail(path))

\* o and m are objects equal everywhere but in the objects path leads to
RECURSIVE EqualOffPath(_, _, _)
EqualOffPath(o, m, path) ==
  /\ o.t = "object"
  /\ m.t = "object"
  /\ path # <<>> =>
       /\ HasProp(o.v, path[1])
       /\ HasProp(m.v, path[1])
       /\ Len(o.v) = Len(m.v)
       /\ SameButKey(o, m, path[1])
       /\ EqualOffPath(GetProp(o.v, path[1]), GetProp(m.v, path[1]), Tail(path))

\* the paths of keys and the keys the properties range over
MaxPath == 3
Paths == UNION {[1..n -> KeyNames] : n \in 0..MaxPath}

\* object b is object a with the one key k more
HasOneMoreKey(a, b, k) ==
  /\ ~HasProp(a.v, k)
  /\ HasProp(b.v, k)
  /\ Len(b.v) = Len(a.v) + 1
  /\ SameButKey(a, b, k)

OriginalDoc == comparison.originalParsed
ModifiedDoc == comparison.modifiedParsed

\* C8: when the modified object has a key k the original lacks, all other keys
\* equal, there is exactly one change: an addition whose keyPath is the
\* dot-joined path ending in k, with the added value as modifiedValue and no
\* originalValue; the summary is total 1, additions 1, deletions 0,
\* modifications 0.
C8_KeyAdded ==
  Completed =>
    \A path \in Paths, k \in KeyNames :
      (/\ EqualOffPath(OriginalDoc, ModifiedDoc, path)
       /\ HasOneMoreKey(ValueAt(OriginalDoc, path), ValueAt(ModifiedDoc, path), k)) =>
        /\ Len(comparison.differences) = 1
        /\ comparison.differences[1].type = "addition"
        /\ comparison.differences[1].keyPath = Join(Append(path, k), <<".">>)
        /\ comparison.differences[1].modifiedValue = GetProp(ValueAt(ModifiedDoc, path).v, k)
        /\ comparison.differences[1].originalValue = Undefined
        /\ comparison.summary.totalChanges = 1
        /\ comparison.summary.additionCount = 1
        /\ comparison.summary.deletionCount = 0
        /\ comparison.summary.modificationCount = 0

\* C9: when the original object has a key k the modified lacks, all other keys
\* equal, there is exactly one change: a deletion whose keyPath ends in k, with
\* the removed value (0 included) as originalValue and no modifiedValue.
C9_KeyDeleted ==
  Completed =>
    \A path \in Paths, k \in KeyNames :
      (/\ EqualOffPath(OriginalDoc, ModifiedDoc, path)
       /\ HasOneMoreKey(ValueAt(ModifiedDoc, path), ValueAt(OriginalDoc, path), k)) =>
        /\ Len(comparison.differences) = 1
        /\ comparison.differences[1].type = "deletion"
        /\ comparison.differences[1].keyPath = Join(Append(path, k), <<".">>)
        /\ comparison.differences[1].originalValue = GetProp(ValueAt(OriginalDoc, path).v, k)
        /\ comparison.differences[1].modifiedValue = Undefined

IsScalar(x) == x.t \in {"null", "boolean", "number", "string"}

\* the positions in differences of the changes whose keyPath is keyPath
ChangesAt(keyPath) ==
  {i \in 1..Len(comparison.differences) : comparison.differences[i].keyPath = keyPath}

\* C10: when a key is in both objects with two different scalar values, of
\* the same or of different scalar types, there is exactly one change for it: a
\* modification with the old value as originalValue and the new value as
\* modifiedValue.
C10_KeyModified ==
  Completed =>
    \A path \in Paths, k \in KeyNames :
      (/\ PathExists(OriginalDoc, path)
       /\ PathExists(ModifiedDoc, path)
       /\ HasProp(ValueAt(OriginalDoc, path).v, k)
       /\ HasProp(ValueAt(ModifiedDoc, path).v, k)
       /\ IsScalar(GetProp(ValueAt(OriginalDoc, path).v, k))
       /\ IsScalar(GetProp(ValueAt(ModifiedDoc, path).v, k))
       /\ GetProp(ValueAt(OriginalDoc, path).v, k) # GetProp(ValueAt(ModifiedDoc, path).v, k)) =>
        \E i \in 1..Len(comparison.differences) :
          /\ ChangesAt(Join(Append(path, k), <<".">>)) = {i}
          /\ comparison.differences[i].type = "modification"
          /\ comparison.differences[i].originalValue = GetProp(ValueAt(OriginalDoc, path).v, k)
          /\ comparison.differences[i].modifiedValue = GetProp(ValueAt(ModifiedDoc, path).v, k)

\* the values of the changes that are not of the type skip, one after another
RECURSIVE ConcatWithout(_, _)
ConcatWithout(changes, skip) ==
  IF changes = <<>> THEN <<>>
  ELSE (IF changes[1].type = skip THEN <<>> ELSE changes[1].value)
         \o ConcatWithout(Tail(changes), skip)

\* C11: in the result of calculateCharLevelDiff(a, b) the values of the
\* changes that are not "add", in order, make up a, and the values of the
\* changes that are not "remove", in order, make up b.
C11_Concatenation ==
  pc = "returned" =>
    /\ ConcatWithout(charResult, "add") = leftText
    /\ ConcatWithout(charResult, "remove") = rightText

\* a result with an equal run between a removal and an addition
C11_Witness ==
  /\ pc = "returned"
  /\ leftText # rightText
  /\ \E i, j, k \in 1..Len(charResult) :
       /\ i < j /\ j < k
       /\ charResult[i].type = "remove"
       /\ charResult[j].type = "equal"
       /\ charResult[k].type = "add"

\* index is one of the differences of cmp
InRange(cmp, index) ==
  /\ cmp # Null
  /\ cmp # Undefined
  /\ Len(cmp.differences) > 0
  /\ index \in 0..(Len(cmp.differences) - 1)

\* the index after k calls of navigateToNext in renders that hold cmp
RECURSIVE NextTimes(_, _, _)
NextTimes(cmp, index, k) ==
  IF k = 0 THEN index ELSE NextTimes(cmp, navigateToNext(cmp, index).index, k - 1)

\* a navigation handler run in a render that holds n differences and the
\* index i sets the index as the contract says
C12_Step ==
  /\ (pc' = "navigateToNext" /\ InRange(comparison, currentDiffIndex)) =>
       currentDiffIndex' = (currentDiffIndex + 1) % Len(comparison.differences)
  /\ (pc' = "navigateToPrevious" /\ InRange(comparison, currentDiffIndex)) =>
       currentDiffIndex' =
         IF currentDiffIndex = 0 THEN Len(comparison.differences) - 1
         ELSE currentDiffIndex - 1
  /\ (pc' = "Alt+N" /\ InRange(keyHandler.comparison, keyHandler.currentDiffIndex)) =>
       currentDiffIndex' =
         (keyHandler.currentDiffIndex + 1) % Len(keyHandler.comparison.differences)
  /\ (pc' = "Alt+P" /\ InRange(keyHandler.comparison, keyHandler.currentDiffIndex)) =>
       currentDiffIndex' =
         IF keyHandler.currentDiffIndex = 0
         THEN Len(keyHandler.comparison.differences) - 1
         ELSE keyHandler.currentDiffIndex - 1

\* from an index in range, n times next, and next then previous, lead back
C12_RoundTrip ==
  InRange(comparison, currentDiffIndex) =>
    /\ NextTimes(comparison, currentDiffIndex, Len(comparison.differences))
         = currentDiffIndex
    /\ navigateToPrevious(comparison,
                          navigateToNext(comparison, currentDiffIndex).index).index
         = currentDiffIndex

\* C12: with n > 0 differences and the index i in 0..n-1, navigateToNext sets
\* the index to (i+1) mod n and navigateToPrevious to n-1 when i = 0 and to
\* i-1 otherwise; so n next steps, or a next and a previous, lead back to i.
C12_Navigation == [][C12_Step]_vars /\ []C12_RoundTrip

\* a click on next has wrapped from the last of three differences to the
\* first: the listener still holds the render the click came from
C12_Witness ==
  /\ pc = "navigateToNext"
  /\ InRange(comparison, currentDiffIndex)
  /\ Len(comparison.differences) = 3
  /\ currentDiffIndex = 0
  /\ keyHandler # Undefined
  /\ keyHandler.comparison = comparison
  /\ keyHandler.currentDiffIndex = 2

\* no effect is left to run and no await is to resume
Settled == pendingEffects = {} /\ awaiting = <<>>

\* a navigation handler has run in this step
Navigated == pc' \in {"navigateToNext", "navigateToPrevious", "Alt+N", "Alt+P"}

\* the index is -1 when there is nothing to navigate
C13_Index == (pc # "idle" /\ NothingToNavigate(comparison)) => currentDiffIndex = -1

\* a navigation handler run when there is nothing to navigate leaves the index
C13_Step ==
  (NothingToNavigate(comparison) /\ Navigated) => currentDiffIndex' = currentDiffIndex

\* C13: when there is no comparison, or the comparison has no differences,
\* the current index is -1 and navigateToNext and navigateToPrevious leave it
\* unchanged.
C13_NavigationBoundary == []C13_Index /\ [][C13_Step]_vars

\* C14: generateJSONPatch on a Comparison whose parsed values are missing
\* because an input failed validation returns the empty patch and does not
\* throw.
C14_EmptyPatch ==
  (pc \in {"patched", "patch thrown"} /\ comparison.status = "error") =>
    /\ pc = "patched"
    /\ patch = <<>>

\* a patch was asked of an error Comparison whose original text was valid
C14_Witness ==
  /\ pc = "patched"
  /\ comparison.status = "error"
  /\ comparison.error.code = "PARSE_ERROR_MODIFIED"
  /\ comparison.originalParsed = Undefined

\* the pieces of the document that are one of the characters of markup
RawMarkup == {i \in 1..Len(html) : html[i] \in {"<", ">", "&"}}

\* C15: in the document of exportAsHTML every keyPath and displayText is
\* escaped: no '<', '>' or '&' of a key or of a string value is in the
\* document as it is.
C15_HtmlEscaped == pc = "exported" => RawMarkup = {}

\* C16: the differences of every Comparison returned are truncated to
\* options.maxDifferences (500 when the option is not given):
\* differences.length <= maxDifferences.
C16_MaxDifferences ==
  Returned => Len(comparison.differences) <= comparison.options.maxDifferences

\* how often a value deeply equal to x is among the items
RECURSIVE Occurrences(_, _)
Occurrences(x, items) ==
  IF items = <<>> THEN 0
  ELSE (IF DeepEqual(x, items[1]) THEN 1 ELSE 0) + Occurrences(x, Tail(items))

\* the items of a that b holds less often, each counted once per missing copy
RECURSIVE MissingFrom(_, _, _)
MissingFrom(a, b, i) ==
  IF i > Len(a) THEN 0
  ELSE (IF Occurrences(a[i], SubSeq(a, 1, i)) > Occurrences(a[i], b) THEN 1 ELSE 0)
         + MissingFrom(a, b, i + 1)

\* C17: with options.ignoreArrayOrder, two arrays are compared as multisets:
\* the same elements in another order give no change, and only the elements
\* that one side holds and the other does not are reported.
C17_IgnoreArrayOrder ==
  (/\ Completed
   /\ comparison.options.ignoreArrayOrder
   /\ IsArray(OriginalDoc)
   /\ IsArray(ModifiedDoc)) =>
    Len(comparison.differences)
      = MissingFrom(OriginalDoc.v, ModifiedDoc.v, 1) + MissingFrom(ModifiedDoc.v, OriginalDoc.v, 1)

\* the number of keys a dot-joined keyPath names
RECURSIVE PathDepth(_)
PathDepth(keyPath) ==
  IF keyPath = <<>> THEN 1
  ELSE (IF Head(keyPath) = "." THEN 1 ELSE 0) + PathDepth(Tail(keyPath))

\* C18: the structural diff ends on every pair of valid JSON values: the
\* recursion stops at the depth cap, here the depth the stack has room for,
\* and a difference below the cap is reported as one replacement of the whole
\* value at the capped depth, so no change lies deeper than the cap.
C18_DepthGuard ==
  (pc # "idle" /\ IsJSONText(originalJSON) /\ IsJSONText(modifiedJSON)) =>
    /\ Completed
    /\ \A i \in 1..Len(comparison.differences) :
         PathDepth(comparison.differences[i].keyPath) <= MaxStack

\* a step in which a tab is clicked, and the key of the tab clicked
TabClick == Len(clicked') = Len(clicked) + 1
ClickedKey == clicked'[Len(clicked')]
\* one click makes one call, with the key of the tab clicked, and leaves the
\* props and the buttons as they are; no other step makes a call
C19_Step ==
  /\ TabClick => /\ calls' = Append(calls, ClickedKey)
                 /\ UNCHANGED <<tabs, activeTab, selected>>
  /\ ~TabClick => calls' = calls
\* the buttons shown as selected are exactly those of the key activeTab
C19_Shown ==
  /\ Len(selected) = Len(tabs)
  /\ \A i \in 1..Len(tabs) : selected[i] <=> tabs[i].key = activeTab
  /\ Cardinality({i \in 1..Len(selected) : selected[i]}) <= 1

\* C19: for any sequence of clicks, Tabs calls onTabChange exactly once per
\* click, in click order, each time with the key of the clicked tab, and
\* changes nothing else: the tab shown as active is always exactly the one
\* whose key equals the activeTab prop.
C19_TabClicks == [][C19_Step]_vars /\ [](calls = clicked) /\ []C19_Shown

\* C19 witness: three clicks on tabs other than the active one, the last on
\* another tab than the first, with the active tab changed in between
C19_Witness ==
  /\ pc = "clicked"
  /\ Len(calls) = MaxClicks
  /\ calls[1] # calls[MaxClicks]
  /\ \A i \in 1..Len(calls) : calls[i] # activeTab
  /\ \E i \in 1..Len(tabs) : selected[i] /\ i > 1

\* the entries of a delta node that traverse passes over without a change: a
\* move [_, index, 3] of jsondiffpatch (the `_t` marker is passed over too)
IsMove(value) == IsArray(value) /\ Len(value.v) = 3 /\ value.v[3] = Num(3)
MovesOf(deltaNode) ==
  {i \in 1..Len(Keys(deltaNode)) : IsMove(Get(deltaNode, Keys(deltaNode)[i]))}

\* C20: in the list parseDeltaToDiffChanges returns, the change at 0-based
\* position n has the id "diff-n": the ids are pairwise distinct and the
\* entries of the delta passed over leave no gap in the numbering.
C20_Ids ==
  Completed =>
    /\ \A i \in 1..Len(comparison.differences) :
         comparison.differences[i].id = <<"d", "i", "f", "f", "-">> \o NatToStr(i - 1)
    /\ \A i, j \in 1..Len(comparison.differences) :
         i # j => comparison.differences[i].id # comparison.differences[j].id

\* C20 witness: the delta of two arrays holds its `_t` marker and a move
\* before its last key, both passed over, and two changes are listed
C20_Witness ==
  /\ Completed
  /\ Len(comparison.differences) >= 2
  /\ IsObjectLike(comparison.delta)
  /\ ~IsArray(comparison.delta)
  /\ \E i \in 1..Len(Keys(comparison.delta)) : Keys(comparison.delta)[i] = <<"_", "t">>
  /\ \E i \in MovesOf(comparison.delta) : i < Len(Keys(comparison.delta))

\* C27: for two valid JSON texts the completed Comparison has no differences
\* if and only if the two parsed values are deeply equal, whatever the shape
\* of the top-level values.
C27_EmptyIffEqual ==
  Completed =>
    (comparison.differences = <<>> <=> DeepEqual(OriginalDoc, ModifiedDoc))

\* C28: within one comparison a keyPath locates one changed position: two
\* distinct changes of differences never have the same keyPath, also when
\* keys of the objects contain the character '.'.
C28_KeyPathsDistinct ==
  Completed =>
    \A i, j \in 1..Len(comparison.differences) :
      i # j => comparison.differences[i].keyPath # comparison.differences[j].keyPath

\* an entry of a delta node that stands for a change: [new], [old, new] or
\* [old, 0, 0]
IsChangeEntry(value) ==
  /\ IsArray(value)
  /\ \/ Len(value.v) \in {1, 2}
     \/ Len(value.v) = 3 /\ value.v[3] = Num(0)
\* the paths of the change entries of a delta, in depth-first pre-order: the
\* keys in iteration order, the entries under a key before its later siblings
RECURSIVE PreOrder(_, _, _)
PreOrder(deltaNode, i, path) ==
  IF i > Len(Keys(deltaNode)) THEN <<>>
  ELSE LET key == Keys(deltaNode)[i]
           value == Get(deltaNode, key)
           here == IF key = <<"_", "t">> THEN <<>>
                   ELSE IF IsChangeEntry(value) THEN <<Append(path, key)>>
                   ELSE IF IsObjectLike(value) /\ ~IsArray(value)
                   THEN PreOrder(value, 1, Append(path, key))
                   ELSE <<>>
       IN here \o PreOrder(deltaNode, i + 1, path)
\* the keys of a path with a '.' between them
RECURSIVE Dotted(_)
Dotted(path) ==
  IF Len(path) = 1 THEN path[1]
  ELSE path[1] \o <<".">> \o Dotted(Tail(path))

\* C21: the changes are listed in depth-first pre-order of the delta: keys in
\* the delta's iteration order, every change under an earlier key before any
\* change of a later sibling, each keyPath the dot-joined keys from the root,
\* and the array marker "_t" gives no change and is in no keyPath.
C21_PreOrder ==
  Completed =>
    LET paths == PreOrder(comparison.delta, 1, <<>>)
    IN /\ Len(comparison.differences) = Len(paths)
       /\ \A i \in 1..Len(paths) :
            /\ comparison.differences[i].keyPath = Dotted(paths[i])
            /\ \A k \in 1..Len(paths[i]) : paths[i][k] # <<"_", "t">>

\* C21 witness: a change under a nested key is listed before the change of a
\* later sibling key
C21_Witness ==
  /\ Completed
  /\ Len(comparison.differences) = 2
  /\ Len(PreOrder(comparison.delta, 1, <<>>)[1]) = 2
  /\ Len(PreOrder(comparison.delta, 1, <<>>)[2]) = 1
  /\ comparison.differences[1].type = "modification"

\* the total length of the changes before the i-th that are not additions
ConsumedBefore(changes, i) == Len(ConcatWithout(SubSeq(changes, 1, i - 1), "add"))

\* C22: in the result of calculateCharLevelDiff(a, b) every "add" change has
\* startIndex -1, and every "remove" or "equal" change has startIndex equal to
\* the total length of the non-add changes before it, length equal to the
\* length of its value, and the slice of a from startIndex of that length
\* equal to its value.
C22_StartIndex ==
  pc = "returned" =>
    \A i \in 1..Len(charResult) :
      IF charResult[i].type = "add"
      THEN charResult[i].startIndex = -1
      ELSE /\ charResult[i].startIndex = ConsumedBefore(charResult, i)
           /\ charResult[i].length = Len(charResult[i].value)
           /\ SubSeq(leftText, charResult[i].startIndex + 1,
                     charResult[i].startIndex + charResult[i].length)
                = charResult[i].value

\* C22 witness: an addition stands between two changes of the original text,
\* the later of them at a startIndex above 0
C22_Witness ==
  /\ pc = "returned"
  /\ \E i, j, k \in 1..Len(charResult) :
       /\ i < j /\ j < k
       /\ charResult[i].type # "add"
       /\ charResult[j].type = "add"
       /\ charResult[k].type # "add"
       /\ charResult[k].startIndex > 0

\* the lines of a text: its pieces between the line feeds
RECURSIVE SplitLines(_, _)
SplitLines(pieces, line) ==
  IF pieces = <<>> THEN <<line>>
  ELSE IF Head(pieces) = "\n" THEN <<line>> \o SplitLines(Tail(pieces), <<>>)
  ELSE SplitLines(Tail(pieces), Append(line, Head(pieces)))
UpperType(type) ==
  CASE type = "addition" -> "ADDITION"
    [] type = "deletion" -> "DELETION"
    [] type = "modification" -> "MODIFICATION"

\* C24: formatAsText renders the four summary counts and then exactly one
\* entry per element of differences, in list order, of the form
\* "[i] TYPE: keyPath" with i the 1-based position and TYPE the upper-cased
\* type, followed by the displayText; with no differences (also for an error
\* Comparison) it renders header and counts only, and it does not throw.
C24_Text ==
  pc = "formatted" =>
    LET rendered == SplitLines(textOut, <<>>)
        n == Len(comparison.differences)
    IN /\ Len(rendered) = 10 + 3 * n
       /\ rendered[5] = <<"Total Changes: ">> \o NatToStr(comparison.summary.totalChanges)
       /\ rendered[6] = <<"  Additions: ">> \o NatToStr(comparison.summary.additionCount)
       /\ rendered[7] = <<"  Deletions: ">> \o NatToStr(comparison.summary.deletionCount)
       /\ rendered[8] =
            <<"  Modifications: ">> \o NatToStr(comparison.summary.modificationCount)
       /\ \A i \in 1..n :
            /\ rendered[8 + 3 * i] =
                 <<"[">> \o NatToStr(i) \o <<"] ", UpperType(comparison.differences[i].type), ": ">>
                   \o comparison.differences[i].keyPath
            /\ rendered[9 + 3 * i] = <<"    ">> \o comparison.differences[i].displayText
            /\ rendered[10 + 3 * i] = <<>>

\* C24 witness: a text with the entries of two changes of different types
C24_Witness ==
  /\ pc = "formatted"
  /\ Len(comparison.differences) = 2
  /\ comparison.differences[1].type # comparison.differences[2].type

\* the keys a JSON Pointer names: the pieces between the '/', with ~1 read
\* as '/' and ~0 as '~'
RECURSIVE PointerKeys(_, _)
PointerKeys(path, key) ==
  IF path = <<>> THEN <<key>>
  ELSE IF Head(path) = "/" THEN <<key>> \o PointerKeys(Tail(path), <<>>)
  ELSE IF Head(path) = "~" /\ Len(path) > 1 /\ path[2] = "1"
  THEN PointerKeys(Tail(Tail(path)), Append(key, "/"))
  ELSE IF Head(path) = "~" /\ Len(path) > 1 /\ path[2] = "0"
  THEN PointerKeys(Tail(Tail(path)), Append(key, "~"))
  ELSE PointerKeys(Tail(path), Append(key, Head(path)))
\* the keys of the pointer of an operation ("" names the whole document)
TargetOf(operation) ==
  IF operation.path = <<>> THEN <<>> ELSE Tail(PointerKeys(operation.path, <<>>))
WithoutProp(props, k) == SelectSeq(props, LAMBDA p : p[1] # k)
\* one operation of RFC 6902 applied at the keys left of its pointer
RECURSIVE ApplyAt(_, _, _)
ApplyAt(doc, keys, operation) ==
  IF keys = <<>> THEN operation.value
  ELSE IF doc.t = "object"
  THEN IF Len(keys) = 1
       THEN IF operation.op = "remove" THEN Obj(WithoutProp(doc.v, keys[1]))
            ELSE Obj(SetProp(doc.v, keys[1], operation.value))
       ELSE Obj(SetProp(doc.v, keys[1],
                        ApplyAt(GetProp(doc.v, keys[1]), Tail(keys), operation)))
  ELSE IF doc.t = "array"
  THEN LET at == StrToNat(keys[1]) + 1
       IN IF Len(keys) > 1
          THEN Arr([doc.v EXCEPT ![at] = ApplyAt(doc.v[at], Tail(keys), operation)])
          ELSE IF operation.op = "remove"
          THEN Arr(SubSeq(doc.v, 1, at - 1) \o SubSeq(doc.v, at + 1, Len(doc.v)))
          ELSE IF operation.op = "add"
          THEN Arr(SubSeq(doc.v, 1, at - 1) \o <<operation.value>>
                     \o SubSeq(doc.v, at, Len(doc.v)))
          ELSE Arr([doc.v EXCEPT ![at] = operation.value])
  ELSE doc
\* the operations of a patch applied one after another
RECURSIVE ApplyPatch(_, _)
ApplyPatch(doc, operations) ==
  IF operations = <<>> THEN doc
  ELSE ApplyPatch(ApplyAt(doc, TargetOf(operations[1]), operations[1]), Tail(operations))

\* C30: for every completed Comparison, whatever the inputs parse to (null,
\* false, 0 and "" included), generateJSONPatch returns a list of operations
\* that turns originalParsed into modifiedParsed, and the list is empty only
\* when the two parsed values are deeply equal.
C30_PatchTransforms ==
  (pc \in {"patched", "patch thrown"} /\ comparison.status = "completed") =>
    /\ pc = "patched"
    /\ DeepEqual(ApplyPatch(OriginalDoc, patch), ModifiedDoc)
    /\ patch = <<>> => DeepEqual(OriginalDoc, ModifiedDoc)

\* a computation is asked for or running: the diff effect is left to run, or
\* performDiff has not finished
InFlight == "diff" \in pendingEffects \/ isCalculating \/ awaiting # <<>>

\* C25: in DiffPanel, under any interleaving of input edits, option changes,
\* Clear Both and completions of computations, whenever no computation is in
\* flight the comparison held is null if an input is blank and otherwise the
\* comparison computed from the current texts: the result of a superseded
\* computation never remains displayed.
C25_NoStaleComparison ==
  (pc # "idle" /\ pc # "mounted" /\ pc # "returned" /\ pc # "thrown" /\ ~InFlight) =>
    IF InputBlank THEN comparison = Null
    ELSE /\ ~calculateDiff(originalJSON, modifiedJSON, options).thrown
         /\ comparison = calculateDiff(originalJSON, modifiedJSON, options).value

\* the index is in the range of the differences held, or -1 when there are none
C26_Range ==
  IF NothingToNavigate(comparison)
  THEN currentDiffIndex = -1
  ELSE currentDiffIndex \in 0..(Len(comparison.differences) - 1)
\* a navigation handler does not read differences outside its range
C26_Read == Navigated => ~uncaught'

\* C26: in every reachable state of DiffPanel, under any interleaving of
\* comparison updates, the index-reset effect, navigateToNext,
\* navigateToPrevious and Clear Both: with n > 0 differences
\* 0 <= currentDiffIndex < n, otherwise currentDiffIndex = -1; and navigation
\* never reads differences at an index outside 0..n-1.
C26_IndexInRange == []C26_Range /\ [][C26_Read]_vars

\* a line token without the line feed that ends it
StripNewline(token) ==
  IF EndsWithNewline(token) THEN SubSeq(token, 1, Len(token) - 1) ELSE token
\* the lines of the components of the line-level diff that are neither added
\* nor removed, in order
RECURSIVE UnchangedLines(_)
UnchangedLines(lineChanges) ==
  IF lineChanges = <<>> THEN <<>>
  ELSE (IF lineChanges[1].added \/ lineChanges[1].removed THEN <<>>
        ELSE [k \in 1..Len(LineTokens(lineChanges[1].value, <<>>)) |->
                StripNewline(LineTokens(lineChanges[1].value, <<>>)[k])])
         \o UnchangedLines(Tail(lineChanges))
\* a result that reports the line as unchanged, by one "equal" change over
\* the whole line
ReportsUnchanged(result, line) ==
  /\ ~result.hasChanges
  /\ result.originalLine = line
  /\ result.modifiedLine = line
  /\ result.charChanges =
       <<[type |-> "equal", value |-> line, startIndex |-> 0, length |-> Len(line)]>>
HowMany(seq, Test(_)) == Cardinality({k \in 1..Len(seq) : Test(seq[k])})

\* C23: in calculateMultiLineCharDiff(a, b) every line the line-level diff
\* classifies as unchanged yields one result with hasChanges = false,
\* originalLine = modifiedLine = that line and a single "equal" change over
\* the full line, also when lines were added or removed before it.
C23_UnchangedLines ==
  pc = "returned" =>
    \A k \in 1..Len(UnchangedLines(diffLines(leftText, rightText))) :
      LET line == UnchangedLines(diffLines(leftText, rightText))[k]
      IN HowMany(lineResult, LAMBDA r : ReportsUnchanged(r, line))
           >= HowMany(UnchangedLines(diffLines(leftText, rightText)), LAMBDA l : l = line)

IsPureAddition(result) ==
  Len(result.charChanges) = 1 /\ result.charChanges[1].type = "add"
IsPureRemoval(result) ==
  Len(result.charChanges) = 1 /\ result.charChanges[1].type = "remove"
OriginalLinesOf(results) ==
  [k \in 1..Len(SelectSeq(results, LAMBDA r : ~IsPureAddition(r))) |->
     SelectSeq(results, LAMBDA r : ~IsPureAddition(r))[k].originalLine]
ModifiedLinesOf(results) ==
  [k \in 1..Len(SelectSeq(results, LAMBDA r : ~IsPureRemoval(r))) |->
     SelectSeq(results, LAMBDA r : ~IsPureRemoval(r))[k].modifiedLine]

\* the lines of a text, in both readings: the pieces between the line feeds
\* (with an empty last line after a final line feed), or the lines that the
\* line-level diff tells apart
LinesOfText(str) ==
  {SplitNewline(str, <<>>),
   [k \in 1..Len(LineTokens(str, <<>>)) |-> StripNewline(LineTokens(str, <<>>)[k])]}

\* C29: calculateMultiLineCharDiff(a, b) covers each input line exactly once:
\* the originalLine of the results other than pure additions, in order, are
\* the lines of a, the modifiedLine of the results other than pure removals
\* are the lines of b, and within every result the non-add changes make up
\* originalLine and the non-remove changes make up modifiedLine.
C29_LinesCovered ==
  pc = "returned" =>
    /\ OriginalLinesOf(lineResult) \in LinesOfText(leftText)
    /\ ModifiedLinesOf(lineResult) \in LinesOfText(rightText)
    /\ \A k \in 1..Len(lineResult) :
         /\ ConcatWithout(lineResult[k].charChanges, "add") = lineResult[k].originalLine
         /\ ConcatWithout(lineResult[k].charChanges, "remove") = lineResult[k].modifiedLine
====
